---- MODULE Spec2Model ----
(***************************************************************************)
(* Event-log subsystem of hardhat-common-tools: the ethers and the viem    *)
(* variants of fetchLogs / watchLogs, the event resolution, the            *)
(* indexed-argument normalisation and the topic encoder.                   *)
(*                                                                         *)
(* JavaScript values are tagged records [k |-> kind, v |-> payload]; the   *)
(* kind is always compared before the payload.  Big integers are kept as   *)
(* a sign and a big-endian base-256 magnitude without leading zeros, so    *)
(* that 256-bit quantities can be computed byte by byte.                   *)
(***************************************************************************)
EXTENDS Integers, Sequences, FiniteSets, TLC

(***************************************************************************)
(* Bounds of the model.                                                    *)
(***************************************************************************)
\* Plain integer inputs are m * f with |m| <= MaxInt.
MaxInt == 3
\* Type tags uintN / intN / bytesN are enumerated for N in 0..MaxTypeSuffix.
MaxTypeSuffix == 264
\* Longest positional indexed-args sequence a caller passes.
MaxArgs == 4
\* Number of public calls in one run.
MaxCalls == 2
\* Most raw entries the backend returns for one range query, delivers to a
\* subscription in one batch, or puts in the receipt of a transaction.
MaxLogs == 2
\* Batches of logs the backend delivers to a subscription in one run.
MaxBatches == 2
\* Invocations of an unsubscribe handle in one run.
MaxUnwatch == 2

(***************************************************************************)
(* JavaScript values.                                                      *)
(***************************************************************************)
Undefined == [k |-> "undefined"]
Null == [k |-> "null"]
BoolV(b) == [k |-> "bool", v |-> b]
IntV(n) == [k |-> "int", v |-> n]
BigV(neg, mag) == [k |-> "big", v |-> [neg |-> neg, mag |-> mag]]
\* A bigint small enough to be kept as a number (0n, 100n).
BigIntV(n) == [k |-> "bigint", v |-> n]
HexV(bytes) == [k |-> "hex", v |-> bytes]
ArrV(seq) == [k |-> "arr", v |-> seq]
TypeT(tag) == [k |-> "type", v |-> tag]
Err(name, arg) == [k |-> "error", v |-> [name |-> name, arg |-> arg]]
\* The hardhat runtime environment object (the only value with .ethers).
HRE == [k |-> "hre"]

IsError(x) == x.k = "error"
IsArray(x) == x.k = "arr"
ErrName(x) == IF IsError(x) THEN x.v.name ELSE "none"

Zeros(n) == [i \in 1..n |-> 0]
RECURSIVE StripZeros(_)
StripZeros(s) == IF s = <<>> THEN <<>>
                 ELSE IF Head(s) = 0 THEN StripZeros(Tail(s)) ELSE s

\* JavaScript truthiness (`x ? a : b`, `x ||= y`).
Truthy(x) ==
    CASE x.k = "undefined" -> FALSE
      [] x.k = "null" -> FALSE
      [] x.k = "bool" -> x.v
      [] x.k = "int" -> x.v # 0
      [] x.k = "bigint" -> x.v # 0
      [] x.k = "big" -> x.v.mag # <<>>
      [] OTHER -> TRUE

(***************************************************************************)
(* The ethers helpers the encoder calls.                                   *)
(***************************************************************************)
\* Magnitude of a non-negative machine integer, most significant byte first.
RECURSIVE ToMag(_)
ToMag(n) == IF n = 0 THEN <<>> ELSE Append(ToMag(n \div 256), n % 256)

\* ethers getBigInt: numbers, bigints and hex strings are BigNumberish.
getBigInt(value) ==
    CASE value.k = "int" ->
           BigV(value.v < 0, ToMag(IF value.v < 0 THEN -value.v ELSE value.v))
      [] value.k = "big" -> value
      [] value.k = "hex" -> BigV(FALSE, StripZeros(value.v))
      [] OTHER -> Err("LibraryError", Null)

\* a < b for magnitudes without leading zeros.
RECURSIVE LexLess(_, _)
LexLess(a, b) == IF a = <<>> THEN FALSE
                 ELSE IF Head(a) # Head(b) THEN Head(a) < Head(b)
                 ELSE LexLess(Tail(a), Tail(b))
MagLess(a, b) == IF Len(a) # Len(b) THEN Len(a) < Len(b) ELSE LexLess(a, b)

\* s + 1 on a fixed-width big-endian byte string (the carry out is dropped).
RECURSIVE IncBytes(_)
IncBytes(s) ==
    IF s = <<>> THEN <<>>
    ELSE LET front == SubSeq(s, 1, Len(s) - 1)
             last == s[Len(s)]
         IN IF last = 255 THEN Append(IncBytes(front), 0)
            ELSE Append(front, last + 1)

\* ethers toTwos(value, width): width is a number of bits.
toTwos(value, width) ==
    LET big == getBigInt(value)
        nbytes == width \div 8
        limit == <<128>> \o Zeros(nbytes - 1)
    IN IF IsError(big) THEN big
       ELSE IF big.v.neg
            THEN IF MagLess(limit, big.v.mag) THEN Err("LibraryError", Null)
                 ELSE LET padded == Zeros(nbytes - Len(big.v.mag)) \o big.v.mag
                          flipped == [i \in 1..nbytes |-> 255 - padded[i]]
                      IN BigV(FALSE, StripZeros(IncBytes(flipped)))
            ELSE IF MagLess(big.v.mag, limit) THEN big
                 ELSE Err("LibraryError", Null)

\* ethers toBeHex(value, width): width is a number of bytes.
toBeHex(value, width) ==
    LET big == IF IsError(value) THEN value ELSE getBigInt(value)
    IN IF IsError(big) THEN big
       ELSE IF big.v.neg THEN Err("LibraryError", Null)
       ELSE IF Len(big.v.mag) > width THEN Err("LibraryError", Null)
       ELSE HexV(Zeros(width - Len(big.v.mag)) \o big.v.mag)

\* ethers zeroPadValue(data, length): pads on the left.
zeroPadValue(data, length) ==
    IF IsError(data) THEN data
    ELSE IF data.k # "hex" THEN Err("LibraryError", Null)
    ELSE IF Len(data.v) > length THEN Err("LibraryError", Null)
    ELSE HexV(Zeros(length - Len(data.v)) \o data.v)

(***************************************************************************)
(* Topic encoder (ethers variant).                                         *)
(***************************************************************************)
\* Type names are tags: <<"uint", 256>> is "uint256", <<"string">> is
\* "string", <<"uint", 256, "[]">> is "uint256[]".
uintTypes_short == {TypeT(<<"uint", j * 8>>) : j \in 1..31}
uintTypes == {TypeT(<<"uint", j * 8>>) : j \in 1..32}
intTypes == {TypeT(<<"int", j * 8>>) : j \in 1..32}
bytesTypes == {TypeT(<<"bytes", j>>) : j \in 1..32}
addressType == TypeT(<<"address">>)
boolType == TypeT(<<"bool">>)

\* hre.ethers: undefined unless hre is the runtime environment.
hasEthers(hre) == hre.k = "hre"

\* The unsigned encoding: zeroPadValue(toBeHex(value, 32), 32).
encodeUint_signed(value) == zeroPadValue(toBeHex(toTwos(value, 256), 32), 32)
encodeUint(value) == zeroPadValue(toBeHex(value, 32), 32)

\* The signed encoding: zeroPadValue(toBeHex(toTwos(value, 256), 32), 32).
encodeInt_unsigned(value) == zeroPadValue(toBeHex(value, 32), 32)
encodeInt(value) == zeroPadValue(toBeHex(toTwos(value, 256), 32), 32)

\* The type dispatch of encodeIndexedValue; a method call on an undefined
\* `ethers` is a TypeError.
encodeByType(ethers, type, value) ==
    IF type = addressType
    THEN IF ethers THEN zeroPadValue(value, 32) ELSE Err("TypeError", Null)
    ELSE IF type \in uintTypes
    THEN IF ethers THEN encodeUint(value) ELSE Err("TypeError", Null)
    ELSE IF type \in intTypes
    THEN IF ethers THEN encodeInt(value) ELSE Err("TypeError", Null)
    ELSE IF type = boolType
    THEN IF ethers
         THEN zeroPadValue(toBeHex(IF Truthy(value) THEN IntV(1) ELSE IntV(0), 32), 32)
         ELSE Err("TypeError", Null)
    ELSE IF type \in bytesTypes
    THEN IF ethers THEN zeroPadValue(value, 32) ELSE Err("TypeError", Null)
    ELSE Err("UnsupportedIndexedType", type)

\* Array.prototype.map with a callback that may throw: the first element
\* whose result is an error aborts the map with that error.
MapOrThrow(results) ==
    IF \E i \in 1..Len(results) : IsError(results[i])
    THEN results[CHOOSE i \in 1..Len(results) :
                   /\ IsError(results[i])
                   /\ \A j \in 1..(i - 1) : ~IsError(results[j])]
    ELSE ArrV(results)

\* encodeIndexedValue(hre, type, value, cannotBeArrayOrNull).  The call made
\* for the elements of an array passes (type, v, true): the element lands
\* in the `type` parameter and `true` in the `value` parameter.
RECURSIVE encodeIndexedValue(_, _, _, _)
encodeIndexedValue(hre, type, value, cannotBeArrayOrNull) ==
    LET ethers == hasEthers(hre)
        cannot == Truthy(cannotBeArrayOrNull)
    IN IF ~cannot /\ value = Null THEN Null
       ELSE IF ~cannot /\ IsArray(value)
       THEN MapOrThrow([i \in 1..Len(value.v) |->
                encodeIndexedValue(type, value.v[i], BoolV(TRUE), Undefined)])
       ELSE IF value = Null THEN Err("NullTopicInArray", Null)
       ELSE encodeByType(ethers, type, value)

(***************************************************************************)
(* Contract interfaces and event identifiers.                              *)
(***************************************************************************)
Param(name, tag, indexed) == [name |-> name, type |-> TypeT(tag), indexed |-> indexed]
EventItem(name, inputs) == [k |-> "item", type |-> "event", name |-> name, inputs |-> inputs]

\* event SampleEvent(bytes32 indexed foo, uint256 indexed bar,
\*                   int256 indexed baz, bytes data)
SampleEvent ==
    EventItem("SampleEvent",
              << Param("foo", <<"bytes", 32>>, TRUE), Param("bar", <<"uint", 256>>, TRUE),
                 Param("baz", <<"int", 256>>, TRUE), Param("data", <<"bytes">>, FALSE) >>)
\* An overload of SampleEvent whose last parameter is a string.
SampleEventString ==
    EventItem("SampleEvent",
              << Param("foo", <<"bytes", 32>>, TRUE), Param("bar", <<"uint", 256>>, TRUE),
                 Param("baz", <<"int", 256>>, TRUE), Param("data", <<"string">>, FALSE) >>)
\* An event whose indexed parameters are preceded and separated by
\* non-indexed ones.
MixedEvent ==
    EventItem("Mixed",
              << Param("count", <<"uint", 8>>, FALSE), Param("flag", <<"bool">>, TRUE),
                 Param("note", <<"string">>, FALSE), Param("amount", <<"int", 64>>, TRUE) >>)

\* The interfaces a contract handle may carry (contract.abi / contract.interface).
Interfaces == { << SampleEvent, MixedEvent >>,
                << SampleEventString, SampleEvent, MixedEvent >> }

\* An event identifier (the eventName string).  form "bare" is a name without
\* parenthesis; "annotated" writes types, indexed flags and names; "types"
\* writes the types only.  A parameter the text gives no name has the name
\* Absent; a parameter the text does not flag is not indexed.
Absent == "<absent>"
Ident(form, name, params) == [form |-> form, name |-> name, params |-> params]
BareId(name) == Ident("bare", name, << >>)
AnnotatedId(ev) == Ident("annotated", ev.name, ev.inputs)
TypesId(ev) ==
    Ident("types", ev.name,
          [i \in 1..Len(ev.inputs) |->
              [name |-> Absent, type |-> ev.inputs[i].type, indexed |-> FALSE]])
\* ev with its parameters renamed p1, p2, ...
Renamed(ev) ==
    [ev EXCEPT !.inputs = [i \in 1..Len(ev.inputs) |->
        [ev.inputs[i] EXCEPT !.name = <<"p1", "p2", "p3", "p4">>[i]]]]
\* ev with the indexed flag of its last indexed parameter dropped.
Unflagged(ev) ==
    LET last == CHOOSE i \in 1..Len(ev.inputs) :
                  /\ ev.inputs[i].indexed
                  /\ \A j \in (i + 1)..Len(ev.inputs) : ~ev.inputs[j].indexed
    IN [ev EXCEPT !.inputs[last].indexed = FALSE]
\* ev without its last parameter.
Shortened(ev) == [ev EXCEPT !.inputs = SubSeq(ev.inputs, 1, Len(ev.inputs) - 1)]

SignatureIds ==
    { AnnotatedId(SampleEvent), AnnotatedId(SampleEventString),
      AnnotatedId(Renamed(SampleEvent)), AnnotatedId(Unflagged(SampleEvent)),
      TypesId(SampleEvent), TypesId(SampleEventString),
      TypesId(Shortened(SampleEvent)), AnnotatedId(MixedEvent) }
BareIds == { BareId("SampleEvent"), BareId("Mixed"), BareId("Missing") }
Identifiers == BareIds \cup SignatureIds

\* eventName.includes("(")
includesParen(eventName) == eventName.form # "bare"

\* The canonical signature name(type,...) of an event or of an identifier.
Sighash(name, params) == << name, [i \in 1..Len(params) |-> params[i].type] >>
\* EventFragment.format(): the canonical signature.
format(eventFragment) == Sighash(eventFragment.name, eventFragment.inputs)
\* hre.ethers.id(text): the hash of the text (injective on the model's texts).
id(text) == [k |-> "id", v |-> text]

(***************************************************************************)
(* JavaScript objects and property access.                                 *)
(***************************************************************************)
\* An object: a function from its own keys (strings) to values.
ObjV(f) == [k |-> "obj", v |-> f]
EmptyObj == ObjV([x \in {} |-> Null])
StrV(s) == [k |-> "str", v |-> s]
FnV(name) == [k |-> "fn", v |-> name]
\* The property key of an array index (0-based).
IndexKey(i) == <<"0", "1", "2", "3", "4", "5", "6", "7">>[i + 1]
Put(f, key, val) == [x \in DOMAIN f \cup {key} |-> IF x = key THEN val ELSE f[x]]
\* x[key] for a string key.
GetProp(x, key) ==
    IF x.k = "obj" /\ key \in DOMAIN x.v THEN x.v[key] ELSE Undefined
\* x[i] for a number i >= 0.
GetIndex(x, i) ==
    IF x.k = "arr" THEN (IF i < Len(x.v) THEN x.v[i + 1] ELSE Undefined)
    ELSE GetProp(x, IndexKey(i))
\* x ?? y picks y exactly when x is null or undefined.
Nullish(x) == x.k \in {"undefined", "null"}

(***************************************************************************)
(* Event resolution.                                                       *)
(***************************************************************************)
\* ethers Interface.getEvent(key): a bare name that several events carry is
\* rejected as ambiguous; a signature is looked up by its canonical form.
getEvent(iface, key) ==
    IF ~includesParen(key)
    THEN LET matching == SelectSeq(iface, LAMBDA f : f.name = key.name)
         IN IF Len(matching) = 0 THEN Null
            ELSE IF Len(matching) > 1 THEN Err("AmbiguousEvent", Null)
            ELSE matching[1]
    ELSE LET matching == SelectSeq(iface,
                 LAMBDA f : format(f) = Sighash(key.name, key.params))
         IN IF Len(matching) = 0 THEN Null ELSE matching[1]

\* viem parseAbiItem(signature): the item the text describes.
parseAbiItem(eventName) == EventItem(eventName.name, eventName.params)

\* getEventAbi without its length checks: an unmatched identifier falls back
\* on the first item of the interface.
getEventAbi_unchecked(abiItems, eventName) ==
    IF ~includesParen(eventName)
    THEN LET matchingEvents == SelectSeq(abiItems,
                 LAMBDA item : item.type = "event" /\ item.name = eventName.name)
         IN IF Len(matchingEvents) = 0 THEN abiItems[1] ELSE matchingEvents[1]
    ELSE EventItem(eventName.name, eventName.params)
\* getEventAbi(contract, eventName) of the viem variant; JSON.stringify
\* equality is equality of the items' attributes.
getEventAbi(abiItems, eventName) ==
    IF ~includesParen(eventName)
    THEN LET matchingEvents == SelectSeq(abiItems,
                 LAMBDA item : item.type = "event" /\ item.name = eventName.name)
         IN IF Len(matchingEvents) = 0 THEN Err("EventNotFound", Null)
            ELSE matchingEvents[1]
    ELSE LET parsedAbiItem == parseAbiItem(eventName)
             matchingEvents == SelectSeq(abiItems,
                 LAMBDA item : item.type = "event" /\ item = parsedAbiItem)
         IN IF Len(matchingEvents) = 0 THEN Err("EventNotFound", Null)
            ELSE parsedAbiItem

(***************************************************************************)
(* Indexed arguments.                                                      *)
(***************************************************************************)
\* encodeTopics(hre, eventFragment, indexedArgs) of the ethers variant: the
\* loop over eventFragment.inputs from input i on, `index` being the
\* positional cursor and `topics` the slots pushed so far.
RECURSIVE encodeTopicsLoop(_, _, _, _, _, _)
encodeTopicsLoop(hre, eventFragment, indexedArgs, i, index, topics) ==
    IF i > Len(eventFragment.inputs) THEN ArrV(topics)
    ELSE LET param == eventFragment.inputs[i]
             byName == GetProp(indexedArgs, eventFragment.name)
             value == IF Nullish(byName) THEN GetIndex(indexedArgs, index) ELSE byName
             next == IF Nullish(byName) THEN index + 1 ELSE index
         IN IF ~param.indexed
            THEN encodeTopicsLoop(hre, eventFragment, indexedArgs, i + 1, index, topics)
            ELSE IF value # Undefined
            THEN LET topic == encodeIndexedValue(hre, param.type, value, Undefined)
                 IN IF IsError(topic) THEN topic
                    ELSE encodeTopicsLoop(hre, eventFragment, indexedArgs, i + 1, next,
                                          Append(topics, topic))
            ELSE encodeTopicsLoop(hre, eventFragment, indexedArgs, i + 1, next,
                                  Append(topics, Null))
encodeTopics(hre, eventFragment, indexedArgs) ==
    encodeTopicsLoop(hre, eventFragment, indexedArgs, 1, 0, << >>)

\* The reduce of normalizeIndexedArgs over the first n indexed parameters.
RECURSIVE reduceIndexedParams(_, _, _)
reduceIndexedParams(indexedParams, indexedArgs, n) ==
    IF n = 0 THEN [x \in {} |-> Null]
    ELSE LET acc == reduceIndexedParams(indexedParams, indexedArgs, n - 1)
             value == GetIndex(indexedArgs, n - 1)
         IN IF value # Undefined THEN Put(acc, indexedParams[n].name, value) ELSE acc

\* normalizeIndexedArgs counting positions over every parameter of the event.
normalizeIndexedArgs_allInputs(eventAbi, indexedArgs) ==
    IF IsArray(indexedArgs)
    THEN LET indexedParams == eventAbi.inputs
         IN IF Len(indexedArgs.v) > Len(indexedParams)
            THEN Err("TooManyArguments", Null)
            ELSE ObjV(reduceIndexedParams(indexedParams, indexedArgs, Len(indexedParams)))
    ELSE IF Nullish(indexedArgs) THEN EmptyObj ELSE indexedArgs
\* normalizeIndexedArgs(eventAbi, indexedArgs) of the viem variant.
normalizeIndexedArgs(eventAbi, indexedArgs) ==
    IF IsArray(indexedArgs)
    THEN LET indexedParams == SelectSeq(eventAbi.inputs, LAMBDA param : param.indexed)
         IN IF Len(indexedArgs.v) > Len(indexedParams)
            THEN Err("TooManyArguments", Null)
            ELSE ObjV(reduceIndexedParams(indexedParams, indexedArgs, Len(indexedParams)))
    ELSE IF Nullish(indexedArgs) THEN EmptyObj ELSE indexedArgs

(***************************************************************************)
(* Raw backend entries and their normalisation.                            *)
(***************************************************************************)
\* The i-th raw entry an ethers provider returns for an event: topic 0 is
\* the hash of the event's signature, followed by one topic per indexed
\* parameter; `decoded` the values the interface decodes from it (one per
\* parameter), the rest the entry's position.
EthersEntry(ev, i) ==
    [ topics |-> << id(format(ev)) >> \o
                 [j \in 1..Len(SelectSeq(ev.inputs, LAMBDA param : param.indexed)) |->
                     StrV("0x746f")],
      decoded |-> [j \in 1..Len(ev.inputs) |-> IntV(10 * i + j)],
      blockNumber |-> IntV(20 + i), blockHash |-> StrV("0x8b01"),
      transactionIndex |-> IntV(0), transactionHash |-> StrV("0x3cf3"),
      index |-> IntV(i - 1) ]
\* The i-th decoded log a viem client returns for an event.
ViemEntry(ev, i) ==
    [ eventName |-> ev.name,
      args |-> ObjV([key \in {ev.inputs[j].name : j \in 1..Len(ev.inputs)} |->
                       IntV(10 * i + (CHOOSE j \in 1..Len(ev.inputs) :
                                          ev.inputs[j].name = key))]),
      blockNumber |-> BigIntV(20 + i), blockHash |-> StrV("0x8b01"),
      transactionIndex |-> IntV(0), transactionHash |-> StrV("0x3cf3"),
      logIndex |-> IntV(i - 1) ]

\* parseLog looking topic 0 up among the hashes of the events' names
\* without their parameter types.
parseLog_byName(iface, entry) ==
    LET matching == SelectSeq(iface,
            LAMBDA f : id(Sighash(f.name, << >>)) = entry.topics[1])
    IN IF Len(matching) = 0 THEN Null
       ELSE [k |-> "log", fragment |-> matching[1], name |-> matching[1].name,
             args |-> entry.decoded]
\* ethers Interface.parseLog(entry): null when no event of the interface has
\* the entry's topic 0; decoding the indexed parameters of the event from
\* fewer topics than it has throws (data out-of-bounds).
parseLog(iface, entry) ==
    LET matching == SelectSeq(iface, LAMBDA f : id(format(f)) = entry.topics[1])
    IN IF Len(matching) = 0 THEN Null
       ELSE IF Len(entry.topics) - 1 <
               Len(SelectSeq(matching[1].inputs, LAMBDA param : param.indexed))
       THEN Err("BUFFER_OVERRUN", Null)
       ELSE [k |-> "log", fragment |-> matching[1], name |-> matching[1].name,
             args |-> entry.decoded]
\* log.args[key] for a parameter name.
ResultByName(log, key) ==
    IF \E j \in 1..Len(log.fragment.inputs) : log.fragment.inputs[j].name = key
    THEN log.args[CHOOSE j \in 1..Len(log.fragment.inputs) :
                    /\ log.fragment.inputs[j].name = key
                    /\ \A h \in 1..(j - 1) : log.fragment.inputs[h].name # key]
    ELSE Undefined

\* The forEach of the ethers normalizeLog over the first n argument keys.
RECURSIVE ethersArgs(_, _)
ethersArgs(log, n) ==
    IF n = 0 THEN [x \in {} |-> Null]
    ELSE Put(Put(ethersArgs(log, n - 1),
                 log.fragment.inputs[n].name,
                 ResultByName(log, log.fragment.inputs[n].name)),
             IndexKey(n - 1), log.args[n])

\* ethersNormalizeLog whose args leave the last parameter out.
ethersNormalizeLog_short(iface, entry) ==
    LET log == parseLog(iface, entry)
    IN IF IsError(log) THEN log
       ELSE IF log = Null THEN Null
       ELSE [ k |-> "normalized", name |-> log.name,
              args |-> ObjV(ethersArgs(log, Len(log.fragment.inputs) - 1)),
              blockNumber |-> entry.blockNumber, blockHash |-> entry.blockHash,
              transactionIndex |-> entry.transactionIndex,
              transactionHash |-> entry.transactionHash,
              logIndex |-> entry.index, native |-> entry ]
\* normalizeLog(iface, entry) of the ethers variant.
ethersNormalizeLog(iface, entry) ==
    LET log == parseLog(iface, entry)
    IN IF IsError(log) THEN log
       ELSE IF log = Null THEN Null
       ELSE [ k |-> "normalized", name |-> log.name,
              args |-> ObjV(ethersArgs(log, Len(log.fragment.inputs))),
              blockNumber |-> entry.blockNumber, blockHash |-> entry.blockHash,
              transactionIndex |-> entry.transactionIndex,
              transactionHash |-> entry.transactionHash,
              logIndex |-> entry.index, native |-> entry ]

\* The forEach of the viem normalizeLog over the first n inputs.
RECURSIVE viemArgs(_, _, _)
viemArgs(abiItem, logArgs, n) ==
    IF n = 0 THEN logArgs.v
    ELSE LET args == viemArgs(abiItem, logArgs, n - 1)
         IN Put(args, IndexKey(n - 1), GetProp(ObjV(args), abiItem.inputs[n].name))

\* viemNormalizeLog with the log's index taken from the transaction's.
viemNormalizeLog_renumbered(abiItem, log) ==
    [ k |-> "normalized", name |-> log.eventName,
      args |-> ObjV(viemArgs(abiItem, log.args, Len(abiItem.inputs))),
      blockNumber |-> log.blockNumber, blockHash |-> log.blockHash,
      transactionIndex |-> log.transactionIndex,
      transactionHash |-> log.transactionHash,
      logIndex |-> log.transactionIndex, native |-> log ]
\* normalizeLog(abi, log) of the viem variant.
viemNormalizeLog(abiItem, log) ==
    [ k |-> "normalized", name |-> log.eventName,
      args |-> ObjV(viemArgs(abiItem, log.args, Len(abiItem.inputs))),
      blockNumber |-> log.blockNumber, blockHash |-> log.blockHash,
      transactionIndex |-> log.transactionIndex,
      transactionHash |-> log.transactionHash,
      logIndex |-> log.logIndex, native |-> log ]

(***************************************************************************)
(* The public operations up to their backend call.                         *)
(***************************************************************************)
ContractAddress == StrV("0xC0")
Callback == FnV("callback")

\* A text given by its characters, and the number n + 1/2.
TextV(chars) == [k |-> "text", v |-> chars]
FracV(n) == [k |-> "frac", v |-> n]
Digits == << "0", "1", "2", "3", "4", "5", "6", "7", "8", "9" >>
IsDigit(c) == \E d \in 1..10 : Digits[d] = c
\* The number a sequence of decimal digits writes (0 for none).
RECURSIVE DigitsValue(_)
DigitsValue(chars) ==
    IF chars = << >> THEN 0
    ELSE 10 * DigitsValue(SubSeq(chars, 1, Len(chars) - 1))
         + (CHOOSE d \in 0..9 : Digits[d + 1] = chars[Len(chars)])
\* BigInt(x): a number becomes the bigint of its value when it is an
\* integer (RangeError otherwise), a bigint is kept, a boolean is 0n or 1n, a
\* hex text is parsed, a text of decimal digits (none included) is parsed;
\* any other text ("latest") is a SyntaxError, undefined and null a
\* TypeError.
BigInt(x) ==
    IF x.k = "int" THEN BigIntV(x.v)
    ELSE IF x.k \in {"bigint", "big"} THEN x
    ELSE IF x.k = "bool" THEN BigIntV(IF x.v THEN 1 ELSE 0)
    ELSE IF x.k = "hex" THEN getBigInt(x)
    ELSE IF x.k = "text"
    THEN IF \A i \in 1..Len(x.v) : IsDigit(x.v[i]) THEN BigIntV(DigitsValue(x.v))
         ELSE Err("SyntaxError", Null)
    ELSE IF x.k = "frac" THEN Err("RangeError", Null)
    ELSE IF x.k = "str" THEN Err("SyntaxError", Null)
    ELSE Err("TypeError", Null)

\* fetchLogs of the ethers variant down to the filter it hands to
\* provider.getLogs; an error value is the exception the call throws.
ethersFetchFilter(iface, eventName, fromBlock, toBlock, indexedArgsIn) ==
    LET indexedArgs == IF Truthy(indexedArgsIn) THEN indexedArgsIn ELSE ArrV(<< >>)
        eventFragment == getEvent(iface, eventName)
    IN IF IsError(eventFragment) THEN eventFragment
       ELSE IF eventFragment = Null THEN Err("EventNotFound", Null)
       ELSE LET encoded == encodeTopics(HRE, eventFragment, indexedArgs)
            IN IF IsError(encoded) THEN encoded
               ELSE [ k |-> "filter", event |-> eventFragment,
                      address |-> ContractAddress,
                      fromBlock |-> IF Nullish(fromBlock) THEN IntV(0) ELSE fromBlock,
                      toBlock |-> IF Nullish(toBlock) THEN StrV("latest") ELSE toBlock,
                      topics |-> ArrV(<< id(format(eventFragment)) >> \o encoded.v) ]

\* watchLogs of the ethers variant down to the filter and listener it hands
\* to contract.on.
ethersWatchFilter(iface, eventName, indexedArgsIn, callbackIn) ==
    LET callback == IF callbackIn = Undefined THEN indexedArgsIn ELSE callbackIn
        given == IF callbackIn = Undefined THEN Undefined ELSE indexedArgsIn
        indexedArgs == IF Truthy(given) THEN given ELSE ArrV(<< >>)
        eventFragment == getEvent(iface, eventName)
    IN IF IsError(eventFragment) THEN eventFragment
       ELSE IF eventFragment = Null THEN Err("EventNotFound", Null)
       ELSE LET encoded == encodeTopics(HRE, eventFragment, indexedArgs)
            IN IF IsError(encoded) THEN encoded
               ELSE [ k |-> "filter", event |-> eventFragment, callback |-> callback,
                      topics |-> ArrV(<< id(format(eventFragment)) >> \o encoded.v) ]

\* fetchLogs of the viem variant down to the filter it hands to
\* client.getLogs.
viemFetchFilter(abiItems, eventName, fromBlock, toBlock, indexedArgs) ==
    LET eventAbi == getEventAbi(abiItems, eventName)
    IN IF IsError(eventAbi) THEN eventAbi
       ELSE LET indexedArgsObject ==
                    normalizeIndexedArgs(eventAbi,
                        IF Truthy(indexedArgs) THEN indexedArgs ELSE ArrV(<< >>))
                from == BigInt(IF Nullish(fromBlock) THEN BigIntV(0) ELSE fromBlock)
                to == IF Nullish(toBlock) THEN StrV("latest") ELSE BigInt(toBlock)
            IN IF IsError(indexedArgsObject) THEN indexedArgsObject
               ELSE IF IsError(from) THEN from
               ELSE IF IsError(to) THEN to
               ELSE [ k |-> "filter", event |-> eventAbi, address |-> ContractAddress,
                      fromBlock |-> from, toBlock |-> to, args |-> indexedArgsObject ]

\* viemWatchFilter without the shift of the callback given as third argument.
viemWatchFilter_unshifted(abiItems, eventName, indexedArgsIn, callbackIn) ==
    LET indexedArgs == IF Truthy(indexedArgsIn) THEN indexedArgsIn ELSE ArrV(<< >>)
        eventAbi == getEventAbi(abiItems, eventName)
    IN IF IsError(eventAbi) THEN eventAbi
       ELSE LET args == normalizeIndexedArgs(eventAbi, indexedArgs)
            IN IF IsError(args) THEN args
               ELSE [ k |-> "filter", event |-> eventAbi, callback |-> callbackIn,
                      address |-> ContractAddress, args |-> args ]
\* watchLogs of the viem variant down to the parameters it hands to
\* client.watchEvent.
viemWatchFilter(abiItems, eventName, indexedArgsIn, callbackIn) ==
    LET callback == IF callbackIn = Undefined THEN indexedArgsIn ELSE callbackIn
        given == IF callbackIn = Undefined THEN Undefined ELSE indexedArgsIn
        indexedArgs == IF Truthy(given) THEN given ELSE ArrV(<< >>)
        eventAbi == getEventAbi(abiItems, eventName)
    IN IF IsError(eventAbi) THEN eventAbi
       ELSE LET args == normalizeIndexedArgs(eventAbi,
                            IF Truthy(indexedArgs) THEN indexedArgs ELSE ArrV(<< >>))
            IN IF IsError(args) THEN args
               ELSE [ k |-> "filter", event |-> eventAbi, callback |-> callback,
                      address |-> ContractAddress, args |-> args ]

(***************************************************************************)
(* Inputs of the callers.                                                  *)
(***************************************************************************)
Foo32 == [i \in 1..32 |-> i]
\* The values a caller puts at one position of the indexed arguments.
ArgValues == { Undefined, Null, IntV(2), IntV(-2), HexV(Foo32) }
\* Positional indexed arguments.
PositionalArgs ==
    { ArrV(seq) : seq \in UNION { [1..n -> ArgValues] : n \in 0..MaxArgs } }
IndexedNames(ev) ==
    LET indexedParams == SelectSeq(ev.inputs, LAMBDA param : param.indexed)
    IN [i \in 1..Len(indexedParams) |-> indexedParams[i].name]
\* The name-keyed form of positional arguments: position i under the i-th
\* name, positions holding undefined left out.
NamedForm(names, positional) ==
    LET present == { i \in 1..Len(positional.v) : positional.v[i] # Undefined }
    IN ObjV([key \in { names[i] : i \in present } |->
                positional.v[CHOOSE i \in present : names[i] = key]])
DeclaredEvents == { SampleEvent, SampleEventString, MixedEvent }
\* Name-keyed indexed arguments, among them one keyed by an event's name.
MappingArgs ==
    UNION { { NamedForm(IndexedNames(ev), a) :
                a \in { p \in PositionalArgs : Len(p.v) <= Len(IndexedNames(ev)) } } :
            ev \in DeclaredEvents }
    \cup { ObjV([key \in {"SampleEvent"} |-> IntV(2)]) }
\* The README's example arguments, in both forms.
ExampleArgs ==
    { ArrV(<< >>), ArrV(<< Null, IntV(2), IntV(-2) >>),
      ObjV([key \in {"foo", "bar", "baz"} |->
              IF key = "foo" THEN Null ELSE IF key = "bar" THEN IntV(2) ELSE IntV(-2)]),
      ArrV(<< Null, IntV(2), IntV(-2), IntV(2) >>) }
\* Bare names are called with every argument, signatures with the examples.
ArgsFor(eventName) ==
    IF eventName \in BareIds THEN {Undefined} \cup PositionalArgs \cup MappingArgs
    ELSE ExampleArgs
\* The block ranges a caller asks for: <<fromBlock, toBlock>>.
BlockRanges == { << Undefined, Undefined >>, << IntV(0), IntV(100) >> }
\* The README's equivalent ways of asking for every block, and a range that
\* starts after block 0.
DefaultFrom == { Undefined, Null, IntV(0) }
DefaultTo == { Undefined, Null, StrV("latest") }
ReadmeRanges ==
    { << from, to >> : from \in DefaultFrom, to \in DefaultTo }
    \cup { << IntV(5), IntV(100) >>, << IntV(5), Undefined >> }

\* The indexed arguments `before` in their other form, for the events of
\* the interface that carry the identifier's name.
OtherForms(iface, eventName, before) ==
    UNION { LET names == IndexedNames(iface[i])
            IN IF iface[i].name # eventName.name THEN {}
               ELSE IF IsArray(before)
               THEN IF Len(before.v) <= Len(names)
                    THEN { NamedForm(names, before) } ELSE {}
               ELSE IF before.k = "obj"
               THEN { p \in { ArrV([j \in 1..n |-> GetProp(before, names[j])]) :
                              n \in 0..Len(names) } :
                        NamedForm(names, p) = before }
               ELSE {} :
            i \in 1..Len(iface) }

(***************************************************************************)
(* State.                                                                  *)
(***************************************************************************)
VARIABLES
    abi,        \* the contract's interface: its event items in declaration order
    calls,      \* number of public calls made
    prev,       \* the call before the last one
    last,       \* the last public call and what it did
    queries,    \* range queries handed to the backend, oldest first
    listeners,  \* listeners registered with the backend, oldest first
    returned,   \* what the completed fetchLogs calls returned
    encType,    \* encoder run: the type given to encodeIndexedValue
    encValue,   \* encoder run: the value given to it
    encResult,  \* encoder run: what it returned or threw
    batches,    \* batches of logs the backend has received for subscriptions
    emitQueue,  \* ethers: logs emitted to the contract and not dispatched yet
    delivered,  \* invocations of user callbacks, oldest first
    reported,   \* exceptions of callbacks written with console.error
    escaped,    \* exceptions of callbacks thrown into the backend's emitter
    unwatched,  \* completed invocations of unsubscribe handles (call numbers)
    removed,    \* calls whose listener the backend has removed
    receipt,    \* the receipt of the transaction the caller holds
    sent        \* transactions handed to a signer or a contract, oldest first

vars == << abi, calls, prev, last, queries, listeners, returned,
           encType, encValue, encResult,
           batches, emitQueue, delivered, reported, escaped, unwatched, removed,
           receipt, sent >>
engineVars == << abi, calls, prev, last, queries, listeners, returned >>
encVars == << encType, encValue, encResult >>
watchVars == << batches, emitQueue, delivered, reported, escaped, unwatched, removed >>
chainVars == << receipt, sent >>

NoCall == [n |-> 0]
NotMined == [k |-> "none"]
NotEncoded == [k |-> "none"]

CallRecord(variant, op, eventName, fromBlock, toBlock, indexedArgs, callback, outcome) ==
    [ n |-> calls + 1, variant |-> variant, op |-> op, eventName |-> eventName,
      fromBlock |-> fromBlock, toBlock |-> toBlock, indexedArgs |-> indexedArgs,
      callback |-> callback, outcome |-> outcome ]

\* Called with the range query handed to the backend twice.
Called_twice(call) ==
    /\ calls' = calls + 1
    /\ prev' = last
    /\ last' = call
    /\ queries' = IF call.op = "fetchLogs" /\ ~IsError(call.outcome)
                  THEN queries \o << [call |-> call.n, variant |-> call.variant,
                                      filter |-> call.outcome],
                                     [call |-> call.n, variant |-> call.variant,
                                      filter |-> call.outcome] >>
                  ELSE queries
    /\ listeners' = IF call.op = "watchLogs" /\ ~IsError(call.outcome)
                    THEN Append(listeners, [call |-> call.n, variant |-> call.variant,
                                            filter |-> call.outcome])
                    ELSE listeners
    /\ UNCHANGED << abi, returned, encVars, watchVars, chainVars >>
\* The state after a public call reached its backend call or threw.
Called(call) ==
    /\ calls' = calls + 1
    /\ prev' = last
    /\ last' = call
    /\ queries' = IF call.op = "fetchLogs" /\ ~IsError(call.outcome)
                  THEN Append(queries, [call |-> call.n, variant |-> call.variant,
                                        filter |-> call.outcome])
                  ELSE queries
    /\ listeners' = IF call.op = "watchLogs" /\ ~IsError(call.outcome)
                    THEN Append(listeners, [call |-> call.n, variant |-> call.variant,
                                            filter |-> call.outcome])
                    ELSE listeners
    /\ UNCHANGED << abi, returned, encVars, watchVars, chainVars >>

EngineInit ==
    /\ abi \in Interfaces
    /\ calls = 0
    /\ prev = NoCall
    /\ last = NoCall
    /\ queries = << >>
    /\ listeners = << >>
    /\ returned = << >>

\* No subscription has received anything yet.
NotWatching ==
    /\ batches = 0
    /\ emitQueue = << >>
    /\ delivered = << >>
    /\ reported = 0
    /\ escaped = 0
    /\ unwatched = << >>
    /\ removed = {}

\* No transaction has been mined or sent yet.
NoChain ==
    /\ receipt = NotMined
    /\ sent = << >>

Init ==
    /\ EngineInit
    /\ NoChain
    /\ encType = addressType
    /\ encValue = Undefined
    /\ encResult = NotEncoded
    /\ NotWatching

(***************************************************************************)
(* Operations.                                                             *)
(***************************************************************************)
Request(eventName, fromBlock, toBlock, indexedArgs, callback) ==
    [ eventName |-> eventName, fromBlock |-> fromBlock, toBlock |-> toBlock,
      indexedArgs |-> indexedArgs, callback |-> callback ]
\* fetchLogs(contract, eventName, fromBlock, toBlock, indexedArgs);
\* watchLogs(contract, eventName, indexedArgs, callback) or
\* watchLogs(contract, eventName, callback).
FirstRequests(op) ==
    IF op = "fetchLogs"
    THEN UNION { { Request(eventName, range[1], range[2], a, Undefined) :
                     range \in BlockRanges, a \in ArgsFor(eventName) } :
                 eventName \in Identifiers }
         \cup { Request(eventName, range[1], range[2], Undefined, Undefined) :
                  range \in ReadmeRanges, eventName \in BareIds }
    ELSE UNION { { Request(eventName, Undefined, Undefined, a, Callback) :
                     a \in ArgsFor(eventName) }
                 \cup { Request(eventName, Undefined, Undefined, Callback, Undefined) } :
                 eventName \in Identifiers }
\* The requests a caller may make now: anything first, then the call before
\* with the indexed arguments in their other form.
Requests(variant, op) ==
    IF calls = 0 THEN FirstRequests(op)
    ELSE IF calls < MaxCalls /\ last.variant = variant /\ last.op = op
    THEN { Request(last.eventName, last.fromBlock, last.toBlock, a, last.callback) :
             a \in OtherForms(abi, last.eventName, last.indexedArgs) }
    ELSE {}

\* One call of each public operation, for a request r.
EthersFetchCall(r) ==
    Called(CallRecord("ethers", "fetchLogs", r.eventName, r.fromBlock, r.toBlock,
                      r.indexedArgs, r.callback,
                      ethersFetchFilter(abi, r.eventName, r.fromBlock, r.toBlock,
                                        r.indexedArgs)))
ViemFetchCall(r) ==
    Called(CallRecord("viem", "fetchLogs", r.eventName, r.fromBlock, r.toBlock,
                      r.indexedArgs, r.callback,
                      viemFetchFilter(abi, r.eventName, r.fromBlock, r.toBlock,
                                      r.indexedArgs)))
EthersWatchCall(r) ==
    Called(CallRecord("ethers", "watchLogs", r.eventName, r.fromBlock, r.toBlock,
                      r.indexedArgs, r.callback,
                      ethersWatchFilter(abi, r.eventName, r.indexedArgs, r.callback)))
ViemWatchCall(r) ==
    Called(CallRecord("viem", "watchLogs", r.eventName, r.fromBlock, r.toBlock,
                      r.indexedArgs, r.callback,
                      viemWatchFilter(abi, r.eventName, r.indexedArgs, r.callback)))

EthersFetchLogs == \E r \in Requests("ethers", "fetchLogs") : EthersFetchCall(r)

ViemFetchLogs == \E r \in Requests("viem", "fetchLogs") : ViemFetchCall(r)

EthersWatchLogs == \E r \in Requests("ethers", "watchLogs") : EthersWatchCall(r)

ViemWatchLogs == \E r \in Requests("viem", "watchLogs") : ViemWatchCall(r)

\* A range query not answered yet.
Pending(q) == \A i \in 1..Len(returned) : returned[i].call # queries[q].call

\* The backend answers a range query of the ethers variant and fetchLogs
\* returns the normalised entries.
EthersFetchLogsReturn ==
    \E q \in 1..Len(queries), m \in 0..MaxLogs :
        /\ queries[q].variant = "ethers"
        /\ Pending(q)
        /\ LET logs == [i \in 1..m |-> EthersEntry(queries[q].filter.event, i)]
           IN returned' = Append(returned,
                  [ call |-> queries[q].call, raw |-> logs,
                    logs |-> [i \in 1..m |-> ethersNormalizeLog(abi, logs[i])] ])
        /\ UNCHANGED << abi, calls, prev, last, queries, listeners, encVars, watchVars,
                        chainVars >>

\* The same for the viem variant.
ViemFetchLogsReturn ==
    \E q \in 1..Len(queries), m \in 0..MaxLogs :
        /\ queries[q].variant = "viem"
        /\ Pending(q)
        /\ LET logs == [i \in 1..m |-> ViemEntry(queries[q].filter.event, i)]
           IN returned' = Append(returned,
                  [ call |-> queries[q].call, raw |-> logs,
                    logs |-> [i \in 1..m |->
                                viemNormalizeLog(queries[q].filter.event, logs[i])] ])
        /\ UNCHANGED << abi, calls, prev, last, queries, listeners, encVars, watchVars,
                        chainVars >>

Next ==
    \/ EthersFetchLogs
    \/ ViemFetchLogs
    \/ EthersWatchLogs
    \/ ViemWatchLogs
    \/ EthersFetchLogsReturn
    \/ ViemFetchLogsReturn

Spec == Init /\ [][Next]_vars

(***************************************************************************)
(* Subscriptions at work: the backend delivers logs to the listeners that  *)
(* watchLogs registered, the user callbacks may throw, and the caller      *)
(* invokes the unsubscribe handles.  One public call is made per run of    *)
(* WatchSpec; PairSpec makes two watchLogs calls on the same contract,      *)
(* whose listeners the backend holds under one tag when their filters are  *)
(* the same.                                                               *)
(***************************************************************************)
\* The calls of a run that goes on to receive logs.
WatchedIds == { BareId("SampleEvent"), BareId("Mixed"), BareId("Missing") }
WatchRequests ==
    { Request(eventName, Undefined, Undefined, a, Callback) :
        eventName \in WatchedIds, a \in { ArrV(<< >>), ArrV(<< Null, IntV(2) >>) } }
    \cup { Request(eventName, Undefined, Undefined, Callback, Undefined) :
             eventName \in WatchedIds }
QueryRequests ==
    { Request(eventName, IntV(0), IntV(100), a, Undefined) :
        eventName \in WatchedIds, a \in { Undefined, ArrV(<< Null, IntV(2) >>) } }
\* The requests of a second subscription: the request of the first one made
\* again, or another filter on the same event.
SecondRequests ==
    { Request(last.eventName, last.fromBlock, last.toBlock, last.indexedArgs,
              last.callback),
      Request(last.eventName, Undefined, Undefined, ArrV(<< Null, IntV(1) >>), Callback) }
\* The last call was a watchLogs call of the variant that registered a
\* listener, and it is the only call so far.
Subscribed(variant) ==
    /\ calls = 1
    /\ last.variant = variant
    /\ last.op = "watchLogs"
    /\ ~IsError(last.outcome)

EthersSubscribe == calls = 0 /\ \E r \in WatchRequests : EthersWatchCall(r)

ViemSubscribe == calls = 0 /\ \E r \in WatchRequests : ViemWatchCall(r)

EthersSubscribeAgain ==
    Subscribed("ethers") /\ \E r \in SecondRequests : EthersWatchCall(r)

ViemSubscribeAgain ==
    Subscribed("viem") /\ \E r \in SecondRequests : ViemWatchCall(r)

EthersQuery == calls = 0 /\ \E r \in QueryRequests : EthersFetchCall(r)

ViemQuery == calls = 0 /\ \E r \in QueryRequests : ViemFetchCall(r)

\* The backend still holds the listener of a registration.
Live(l) == listeners[l].call \notin removed
\* What the backend files a registration under: the topics (the tag of the
\* contract's subscription) in the ethers variant, the parameters of
\* watchEvent in the viem variant.
Tag(l) ==
    IF listeners[l].variant = "ethers"
    THEN listeners[l].filter.topics
    ELSE [ address |-> listeners[l].filter.address, event |-> listeners[l].filter.event,
           args |-> listeners[l].filter.args ]
\* The registrations the backend holds under a tag, oldest first.
Targets(variant, tag) ==
    SelectSeq([i \in 1..Len(listeners) |-> i],
              LAMBDA i : listeners[i].variant = variant /\ Live(i) /\ Tag(i) = tag)
\* The number of the i-th log of the next batch.
LogNumber(i) == batches * MaxLogs + i
\* One invocation of a user callback: the value it was given, whether it
\* threw, and the place of the log in its batch.
Delivery(call, value, threw, pos, size) ==
    [ call |-> call, value |-> value, threw |-> threw,
      batch |-> batches + 1, pos |-> pos, size |-> size ]

\* The ethers provider receives m logs that match a registered filter; the
\* contract queues one emit per log.
EthersEmitOf(sizes) ==
    \E l \in 1..Len(listeners), m \in sizes :
        /\ listeners[l].variant = "ethers"
        /\ Live(l)
        /\ batches < MaxBatches
        /\ batches' = batches + 1
        /\ emitQueue' = emitQueue \o
              [i \in 1..m |->
                  [ tag |-> Tag(l),
                    entry |-> EthersEntry(listeners[l].filter.event, LogNumber(i)),
                    batch |-> batches + 1, pos |-> i, size |-> m ]]
        /\ UNCHANGED << engineVars, encVars, chainVars, delivered, reported, escaped,
                        unwatched, removed >>

EthersEmit == EthersEmitOf(1..MaxLogs)

\* A contract that dispatches its newest queued emit first.
EthersDispatch_newest ==
    /\ emitQueue # << >>
    /\ emitQueue' = SubSeq(emitQueue, 1, Len(emitQueue) - 1)
    /\ LET e == emitQueue[Len(emitQueue)]
           to == Targets("ethers", e.tag)
       IN \E throws \in [1..Len(to) -> BOOLEAN] :
            /\ delivered' = delivered \o
                  [j \in 1..Len(to) |->
                      [ call |-> listeners[to[j]].call,
                        value |-> ethersNormalizeLog(abi, e.entry),
                        threw |-> throws[j], batch |-> e.batch, pos |-> e.pos,
                        size |-> e.size ]]
            /\ escaped' = escaped + Cardinality({ j \in 1..Len(to) : throws[j] })
    /\ UNCHANGED << engineVars, encVars, chainVars, batches, reported, unwatched,
                    removed >>
\* The contract dispatches its oldest queued emit to the listeners it holds
\* under the tag by then, oldest first: for each, wrappedCallback runs,
\* callback(normalizeLog(iface, payload.log)), and an exception of the
\* callback leaves wrappedCallback for the emitter, which goes on with the
\* next listener.
EthersDispatch ==
    /\ emitQueue # << >>
    /\ emitQueue' = Tail(emitQueue)
    /\ LET e == Head(emitQueue)
           to == Targets("ethers", e.tag)
       IN \E throws \in [1..Len(to) -> BOOLEAN] :
            /\ delivered' = delivered \o
                  [j \in 1..Len(to) |->
                      [ call |-> listeners[to[j]].call,
                        value |-> ethersNormalizeLog(abi, e.entry),
                        threw |-> throws[j], batch |-> e.batch, pos |-> e.pos,
                        size |-> e.size ]]
            /\ escaped' = escaped + Cardinality({ j \in 1..Len(to) : throws[j] })
    /\ UNCHANGED << engineVars, encVars, chainVars, batches, reported, unwatched,
                    removed >>

\* The place in a batch of m logs, and the listener, of the k-th invocation
\* when each listener in turn is handed the whole batch.
PosOf(k, m) == ((k - 1) % m) + 1
TargetOf(k, m) == ((k - 1) \div m) + 1

\* onLogs without its try/catch: the first exception ends the delivery of
\* the batch.
ViemOnLogsOf_uncaught(sizes) ==
    \E l \in 1..Len(listeners), m \in sizes :
        /\ listeners[l].variant = "viem"
        /\ Live(l)
        /\ batches < MaxBatches
        /\ batches' = batches + 1
        /\ LET to == Targets("viem", Tag(l))
               n == Len(to) * m
           IN \E throws \in [1..n -> BOOLEAN] :
                LET stop == IF \E k \in 1..n : throws[k]
                            THEN CHOOSE k \in 1..n :
                                   throws[k] /\ \A j \in 1..(k - 1) : ~throws[j]
                            ELSE n
                IN /\ delivered' = delivered \o
                         [k \in 1..stop |->
                             Delivery(listeners[to[TargetOf(k, m)]].call,
                                      viemNormalizeLog(listeners[l].filter.event,
                                          ViemEntry(listeners[l].filter.event,
                                                    LogNumber(PosOf(k, m)))),
                                      throws[k], PosOf(k, m), m)]
                   /\ escaped' = IF \E k \in 1..n : throws[k]
                                 THEN escaped + 1 ELSE escaped
        /\ UNCHANGED << engineVars, encVars, chainVars, emitQueue, reported,
                        unwatched, removed >>
\* The viem client hands a batch of m logs to the onLogs of each listener it
\* holds for the parameters, oldest first: logs.forEach invokes
\* callback(normalizeLog(eventAbi, log)) for each log, inside try/catch with
\* console.error.
ViemOnLogsOf(sizes) ==
    \E l \in 1..Len(listeners), m \in sizes :
        /\ listeners[l].variant = "viem"
        /\ Live(l)
        /\ batches < MaxBatches
        /\ batches' = batches + 1
        /\ LET to == Targets("viem", Tag(l))
               n == Len(to) * m
           IN \E throws \in [1..n -> BOOLEAN] :
                /\ delivered' = delivered \o
                      [k \in 1..n |->
                          Delivery(listeners[to[TargetOf(k, m)]].call,
                                   viemNormalizeLog(listeners[l].filter.event,
                                       ViemEntry(listeners[l].filter.event,
                                                 LogNumber(PosOf(k, m)))),
                                   throws[k], PosOf(k, m), m)]
                /\ reported' = reported + Cardinality({ k \in 1..n : throws[k] })
        /\ UNCHANGED << engineVars, encVars, chainVars, emitQueue, escaped,
                        unwatched, removed >>

ViemOnLogs == ViemOnLogsOf(1..MaxLogs)

\* The function watchLogs registers with contract.on for a call.
wrappedCallback(call) == [k |-> "fn", v |-> "wrappedCallback", of |-> call]
\* contract.off(filter) whatever the listener: every registration under the
\* filter.
contractOff_wholeFilter(filter, listener) ==
    { listeners[l].call : l \in { i \in 1..Len(listeners) :
        /\ listeners[i].variant = "ethers"
        /\ listeners[i].filter.topics = filter } }
\* contract.off(filter, listener): the registrations under the filter whose
\* listener is that function.
contractOff(filter, listener) ==
    { listeners[l].call : l \in { i \in 1..Len(listeners) :
        /\ listeners[i].variant = "ethers"
        /\ listeners[i].filter.topics = filter
        /\ wrappedCallback(listeners[i].call) = listener } }

\* The unsubscribe handle calling contract.off with the user callback.
EthersUnwatch_byCallback ==
    \E l \in 1..Len(listeners) :
        /\ listeners[l].variant = "ethers"
        /\ Len(unwatched) < MaxUnwatch
        /\ removed' = removed \cup
              contractOff(listeners[l].filter.topics,
                          [k |-> "fn", v |-> "callback", of |-> listeners[l].call])
        /\ unwatched' = Append(unwatched, listeners[l].call)
        /\ UNCHANGED << engineVars, encVars, chainVars, batches, emitQueue, delivered,
                        reported, escaped >>
\* The handle the ethers watchLogs returns runs to completion:
\* await contract.off(filter, wrappedCallback).
EthersUnwatch ==
    \E l \in 1..Len(listeners) :
        /\ listeners[l].variant = "ethers"
        /\ Len(unwatched) < MaxUnwatch
        /\ removed' = removed \cup
              contractOff(listeners[l].filter.topics, wrappedCallback(listeners[l].call))
        /\ unwatched' = Append(unwatched, listeners[l].call)
        /\ UNCHANGED << engineVars, encVars, chainVars, batches, emitQueue, delivered,
                        reported, escaped >>

\* An unwatch function that flips the registration: the listener is back
\* after a second invocation.
ViemUnwatch_toggle ==
    \E l \in 1..Len(listeners) :
        /\ listeners[l].variant = "viem"
        /\ Len(unwatched) < MaxUnwatch
        /\ removed' = IF listeners[l].call \in removed
                      THEN removed \ { listeners[l].call }
                      ELSE removed \cup { listeners[l].call }
        /\ unwatched' = Append(unwatched, listeners[l].call)
        /\ UNCHANGED << engineVars, encVars, chainVars, batches, emitQueue, delivered,
                        reported, escaped >>
\* The handle the viem watchLogs returns (the unwatch function of
\* client.watchEvent) runs to completion.
ViemUnwatch ==
    \E l \in 1..Len(listeners) :
        /\ listeners[l].variant = "viem"
        /\ Len(unwatched) < MaxUnwatch
        /\ removed' = removed \cup { listeners[l].call }
        /\ unwatched' = Append(unwatched, listeners[l].call)
        /\ UNCHANGED << engineVars, encVars, chainVars, batches, emitQueue, delivered,
                        reported, escaped >>

WatchNext ==
    \/ EthersSubscribe
    \/ ViemSubscribe
    \/ EthersQuery
    \/ ViemQuery
    \/ EthersFetchLogsReturn
    \/ ViemFetchLogsReturn
    \/ EthersEmit
    \/ EthersDispatch
    \/ ViemOnLogs
    \/ EthersUnwatch
    \/ ViemUnwatch

WatchSpec == Init /\ [][WatchNext]_vars

\* Two subscriptions of one caller, the backend delivering one log at a
\* time.
EthersEmitOne == EthersEmitOf({1})

ViemOnLogsOne == ViemOnLogsOf({1})

PairNext ==
    \/ EthersSubscribe
    \/ ViemSubscribe
    \/ EthersSubscribeAgain
    \/ ViemSubscribeAgain
    \/ EthersEmitOne
    \/ EthersDispatch
    \/ ViemOnLogsOne
    \/ EthersUnwatch
    \/ ViemUnwatch

PairSpec == Init /\ [][PairNext]_vars

(***************************************************************************)
(* Logs of one transaction: fetchTransactionLogs reads the receipt of a    *)
(* mined transaction and keeps the entries of the requested event.         *)
(***************************************************************************)
\* An address other than the contract's, and an event no interface declares.
OtherAddress == StrV("0xD1")
ForeignEvent == EventItem("Foreign", << Param("who", <<"address">>, TRUE) >>)
\* What a receipt entry was emitted as: an event by an address; `short`
\* entries carry the event's topic 0 and one topic less than the event has
\* indexed parameters (an event with the same signature and fewer indexed
\* parameters, emitted by another contract).
Emitted(ev, address, short) == [ev |-> ev, address |-> address, short |-> short]
ReceiptKinds ==
    { Emitted(SampleEvent, ContractAddress, FALSE),
      Emitted(MixedEvent, ContractAddress, FALSE),
      Emitted(SampleEvent, OtherAddress, FALSE),
      Emitted(ForeignEvent, OtherAddress, FALSE),
      Emitted(SampleEvent, OtherAddress, TRUE) }
Receipts == UNION { [1..n -> ReceiptKinds] : n \in 0..MaxLogs }
\* The topics of a receipt entry.
ReceiptTopics(e) ==
    LET topics == EthersEntry(e.ev, 1).topics
    IN IF e.short THEN SubSeq(topics, 1, Len(topics) - 1) ELSE topics
\* The i-th entry of receipt.logs as the ethers provider returns it (a Log:
\* it has no signature property).
EthersReceiptLog(e, i) ==
    [ address |-> e.address, topics |-> ReceiptTopics(e),
      decoded |-> EthersEntry(e.ev, i).decoded,
      blockNumber |-> IntV(21), blockHash |-> StrV("0x8b01"),
      transactionIndex |-> IntV(0), transactionHash |-> StrV("0x3cf3"),
      index |-> IntV(i - 1) ]
\* The i-th entry of receipt.logs as the viem client returns it.
ViemReceiptLog(e, i) ==
    [ address |-> e.address, topics |-> ReceiptTopics(e),
      decoded |-> ViemEntry(e.ev, i).args,
      blockNumber |-> BigIntV(21), blockHash |-> StrV("0x8b01"),
      transactionIndex |-> IntV(0), transactionHash |-> StrV("0x3cf3"),
      logIndex |-> IntV(i - 1) ]
\* entry[key] of a raw entry.
EntryProp(entry, key) == IF key \in DOMAIN entry THEN entry[key] ELSE Undefined
\* a === eventName for a that is an event's name: the identifier is that
\* bare name.
NameIs(name, eventName) == eventName = BareId(name)

\* fetchTransactionLogs of the ethers variant keeping the entries of the
\* contract's own address only.
ethersFetchTransactionLogs_ownAddress(iface, logs, eventName) ==
    LET normalized == [i \in 1..Len(logs) |-> ethersNormalizeLog(iface, logs[i])]
    IN IF \E i \in 1..Len(logs) : IsError(normalized[i])
       THEN normalized[CHOOSE i \in 1..Len(logs) :
                         /\ IsError(normalized[i])
                         /\ \A j \in 1..(i - 1) : ~IsError(normalized[j])]
       ELSE ArrV(SelectSeq(SelectSeq(normalized, LAMBDA e : e # Null),
                           LAMBDA e : /\ e.native.address = ContractAddress
                                      /\ \/ NameIs(e.name, eventName)
                                         \/ EntryProp(e.native, "signature") = eventName))
\* fetchTransactionLogs(hre, contract, {hash}, eventName) of the ethers
\* variant on the receipt's logs: receipt.logs.map(normalizeLog), the first
\* exception of normalizeLog leaving the call; then the non-null records
\* whose name, or whose native.signature, is eventName.
ethersFetchTransactionLogs(iface, logs, eventName) ==
    LET normalized == [i \in 1..Len(logs) |-> ethersNormalizeLog(iface, logs[i])]
    IN IF \E i \in 1..Len(logs) : IsError(normalized[i])
       THEN normalized[CHOOSE i \in 1..Len(logs) :
                         /\ IsError(normalized[i])
                         /\ \A j \in 1..(i - 1) : ~IsError(normalized[j])]
       ELSE ArrV(SelectSeq(SelectSeq(normalized, LAMBDA e : e # Null),
                           LAMBDA e : \/ NameIs(e.name, eventName)
                                      \/ EntryProp(e.native, "signature") = eventName))

\* viem decodeEventLog in strict mode of an entry against an item: the
\* entry must carry the item's selector and one topic per indexed parameter.
Decodes(abiItem, log) ==
    /\ log.topics[1] = id(format(abiItem))
    /\ Len(log.topics) - 1 = Len(SelectSeq(abiItem.inputs, LAMBDA param : param.indexed))
\* viem parseEventLogs({abi, eventName, logs, strict: true}): the logs that
\* an item of abi decodes and whose decoded event name is eventName, each
\* with eventName and args added; the others are left out.
parseEventLogs(abiItems, eventName, logs) ==
    LET kept == SelectSeq(logs, LAMBDA log :
                    \E a \in 1..Len(abiItems) :
                        Decodes(abiItems[a], log) /\ NameIs(abiItems[a].name, eventName))
    IN [i \in 1..Len(kept) |->
          LET abiItem == abiItems[CHOOSE a \in 1..Len(abiItems) :
                                    Decodes(abiItems[a], kept[i])]
          IN [ eventName |-> abiItem.name, args |-> kept[i].decoded,
               address |-> kept[i].address, topics |-> kept[i].topics,
               blockNumber |-> kept[i].blockNumber, blockHash |-> kept[i].blockHash,
               transactionIndex |-> kept[i].transactionIndex,
               transactionHash |-> kept[i].transactionHash,
               logIndex |-> kept[i].logIndex ]]
\* fetchTransactionLogs(hre, contract, tx, eventName) of the viem variant on
\* the receipt's logs.
viemFetchTransactionLogs(abiItems, logs, eventName) ==
    LET eventAbi == getEventAbi(abiItems, eventName)
    IN IF IsError(eventAbi) THEN eventAbi
       ELSE LET parsedLogs == parseEventLogs(<< eventAbi >>, eventName, logs)
            IN ArrV([i \in 1..Len(parsedLogs) |-> viemNormalizeLog(eventAbi, parsedLogs[i])])

\* The receipt's entries as a variant's backend returns them.
ReceiptLogs(variant) ==
    [i \in 1..Len(receipt.logs) |->
        IF variant = "ethers" THEN EthersReceiptLog(receipt.logs[i], i)
        ELSE ViemReceiptLog(receipt.logs[i], i)]
\* The record of a fetchTransactionLogs call.
TxCall(variant, eventName, outcome) ==
    CallRecord(variant, "fetchTransactionLogs", eventName, Undefined, Undefined,
               Undefined, Undefined, outcome)
\* The identifiers a caller asks the logs of a transaction for: any first,
\* then any for the same variant.
TxRequests(variant) ==
    IF receipt = NotMined \/ calls >= 2 \/ (calls = 1 /\ last.variant # variant)
    THEN {}
    ELSE Identifiers

\* A transaction of the caller is mined.
Mine ==
    /\ receipt = NotMined
    /\ \E logs \in Receipts : receipt' = [k |-> "receipt", logs |-> logs]
    /\ UNCHANGED << engineVars, encVars, watchVars, sent >>

EthersFetchTransactionLogs ==
    \E eventName \in TxRequests("ethers") :
        Called(TxCall("ethers", eventName,
                      ethersFetchTransactionLogs(abi, ReceiptLogs("ethers"), eventName)))

ViemFetchTransactionLogs ==
    \E eventName \in TxRequests("viem") :
        Called(TxCall("viem", eventName,
                      viemFetchTransactionLogs(abi, ReceiptLogs("viem"), eventName)))

TxNext ==
    \/ Mine
    \/ EthersFetchTransactionLogs
    \/ ViemFetchTransactionLogs

TxSpec == Init /\ [][TxNext]_vars

(***************************************************************************)
(* Transactions: hre.common.transfer and hre.common.send pick a signer and *)
(* hand a transaction to it (index.js).                                    *)
(***************************************************************************)
\* typeof x.
TypeOf(x) ==
    CASE x.k \in {"int", "frac"} -> "number"
      [] x.k \in {"text", "str", "hex"} -> "string"
      [] x.k \in {"bigint", "big"} -> "bigint"
      [] x.k = "bool" -> "boolean"
      [] x.k = "undefined" -> "undefined"
      [] x.k = "fn" -> "function"
      [] OTHER -> "object"
\* hre.common.getSigners(): the accounts of the network, and the runner a
\* contract handle was created with.
Signer(i) == [k |-> "signer", v |-> i]
Signers == << Signer(0), Signer(1), Signer(2) >>
ContractRunner == [k |-> "signer", v |-> "runner"]
\* hre.common.getSigner(idx): (await hre.common.getSigners())[idx].
getSigner(idx) ==
    IF idx.k = "int" /\ idx.v >= 0 /\ idx.v < Len(Signers) THEN Signers[idx.v + 1]
    ELSE Undefined
ChainId == BigIntV(31337)
ToAddress == StrV("0xA1")
\* new Error("A non-empty valid value must be specified")
ValueRequired == Err("ValueRequired", Null)

\* normalizeTransferTxOptions that passes the options on as they are.
normalizeTransferTxOptions_asGiven(txOptsIn) ==
    LET given == IF Nullish(txOptsIn) THEN EmptyObj ELSE txOptsIn
    IN IF TypeOf(given) \in {"string", "number", "bigint"}
       THEN ObjV([key \in {"value"} |-> given])
       ELSE given
\* normalizeTransferTxOptions(txOpts): the options with value made a bigint,
\* or the error.
normalizeTransferTxOptions(txOptsIn) ==
    LET given == IF Nullish(txOptsIn) THEN EmptyObj ELSE txOptsIn
        txOpts == IF TypeOf(given) \in {"string", "number", "bigint"}
                  THEN ObjV([key \in {"value"} |-> given])
                  ELSE given
        value == BigInt(GetProp(txOpts, "value"))
    IN IF IsError(value) \/ txOpts.k # "obj" THEN ValueRequired
       ELSE ObjV(Put(txOpts.v, "value", value))

\* normalizeSigner(hre, account): signer 0 unless an account is given; a
\* bigint has no toNumber method, so account.toNumber() throws a TypeError.
normalizeSigner(hre, account) ==
    IF account = Undefined THEN getSigner(IntV(0))
    ELSE IF TypeOf(account) = "bigint" THEN Err("TypeError", StrV("toNumber"))
    ELSE IF TypeOf(account) = "number" THEN getSigner(account)
    ELSE account

\* signer.sendTransaction(tx) or a contract method called through a signer:
\* the transaction handed over, or the TypeError of calling a method of
\* something that is no signer.
Submit(signer, tx) ==
    IF signer.k = "signer" THEN [k |-> "tx", by |-> signer, tx |-> tx]
    ELSE Err("TypeError", StrV("sendTransaction"))

\* The options both variants build: gasLimit in the ethers variant, gas in
\* the viem variant.
NewOpts(variant, to, txOpts) ==
    LET gasKey == IF variant = "ethers" THEN "gasLimit" ELSE "gas"
        common == [key \in {gasKey, "gasPrice", "value", "chainId"} |->
                     IF key = gasKey THEN GetProp(txOpts, "gas")
                     ELSE IF key = "chainId"
                     THEN (IF Truthy(GetProp(txOpts, "eip155")) THEN ChainId ELSE Undefined)
                     ELSE GetProp(txOpts, key)]
    IN IF to = Undefined THEN ObjV(common) ELSE ObjV(Put(common, "to", to))

\* hre.common.transfer(to, txOpts) of either variant: what it returns or
\* throws.
transfer(variant, to, txOptsIn) ==
    LET txOpts == normalizeTransferTxOptions(txOptsIn)
    IN IF IsError(txOpts) THEN txOpts
       ELSE LET signer == normalizeSigner(HRE, GetProp(txOpts, "account"))
            IN IF IsError(signer) THEN signer
               ELSE Submit(signer, NewOpts(variant, to, txOpts))

\* hre.common.send(contract, method, args, txOpts) of either variant: the
\* contract method is called through the runner of the contract, or through
\* the account when one is given (contract.connect(account) in the ethers
\* variant, contract.write[method](account, args, newOpts) in the viem
\* variant).
send(variant, txOptsIn) ==
    LET txOpts == IF Truthy(txOptsIn) THEN txOptsIn ELSE EmptyObj
        account == GetProp(txOpts, "account")
        base == NewOpts(variant, Undefined, txOpts)
        from == GetProp(txOpts, "from")
    IN IF account # Undefined
       THEN IF TypeOf(account) = "bigint" THEN Err("TypeError", StrV("toNumber"))
            ELSE Submit(IF TypeOf(account) = "number" THEN getSigner(account) ELSE account,
                        base)
       ELSE Submit(ContractRunner,
                   IF Truthy(from) THEN ObjV(Put(base.v, "from", from)) ELSE base)

\* The options callers pass.
WithKey(f, key, val) == IF val = Undefined THEN f ELSE Put(f, key, val)
Options(value, account) ==
    ObjV(WithKey(WithKey([x \in {} |-> Null], "value", value), "account", account))
Amounts == { IntV(2), BigIntV(2), TextV(<< "2" >>), TextV(<< "2", "0" >>) }
OtherValues ==
    { Undefined, Null, TextV(<< "a" >>), TextV(<< "2", ".", "5" >>), FracV(2),
      TextV(<< >>), BoolV(TRUE) }
Accounts == { Undefined, IntV(0), IntV(1), BigIntV(1), Signer(2) }
TransferOptions ==
    Amounts \cup { Undefined, Null, TextV(<< "a" >>), FracV(2) }
    \cup { Options(value, account) : value \in Amounts \cup OtherValues,
                                     account \in Accounts }
SendOptions ==
    { Undefined } \cup { Options(value, account) : value \in { Undefined, BigIntV(2) },
                                                   account \in Accounts }

\* The record of a call, and the state after it: a transaction is sent
\* unless the call threw.
MoneyCall(variant, op, txOpts, outcome) ==
    [ n |-> calls + 1, variant |-> variant, op |-> op, txOpts |-> txOpts,
      outcome |-> outcome ]
Performed(call) ==
    /\ calls < 2
    /\ calls > 0 => last.variant = call.variant
    /\ calls' = calls + 1
    /\ prev' = last
    /\ last' = call
    /\ sent' = IF IsError(call.outcome) THEN sent ELSE Append(sent, call.outcome)
    /\ UNCHANGED << abi, queries, listeners, returned, encVars, watchVars, receipt >>

EthersTransfer ==
    \E txOpts \in TransferOptions :
        Performed(MoneyCall("ethers", "transfer", txOpts,
                            transfer("ethers", ToAddress, txOpts)))

ViemTransfer ==
    \E txOpts \in TransferOptions :
        Performed(MoneyCall("viem", "transfer", txOpts,
                            transfer("viem", ToAddress, txOpts)))

EthersSend ==
    \E txOpts \in SendOptions :
        Performed(MoneyCall("ethers", "send", txOpts, send("ethers", txOpts)))

ViemSend ==
    \E txOpts \in SendOptions :
        Performed(MoneyCall("viem", "send", txOpts, send("viem", txOpts)))

MoneyNext ==
    \/ EthersTransfer
    \/ ViemTransfer
    \/ EthersSend
    \/ ViemSend

MoneySpec == Init /\ [][MoneyNext]_vars

(***************************************************************************)
(* The topic encoder on its own: encodeIndexedValue applied to one type    *)
(* and one value.                                                          *)
(***************************************************************************)
\* Type tags: every uintN, intN and bytesN up to the bound, and the others.
EncTypes ==
    { TypeT(<< base, n >>) : base \in {"uint", "int", "bytes"}, n \in 0..MaxTypeSuffix }
    \cup { TypeT(<< name >>) :
             name \in {"address", "bool", "string", "bytes", "uint", "int",
                       "uint256[]", "tuple", "function"} }
Address20 == [i \in 1..20 |-> 160 + i]
\* 2^255 as a magnitude.
TwoTo255 == << 128 >> \o Zeros(31)
\* Scalar values.
EncScalars ==
    { IntV(m * f) : m \in (0 - MaxInt)..MaxInt, f \in {1, 258, 66051} }
    \cup { BigV(FALSE, [i \in 1..32 |-> 255]), BigV(FALSE, << 1 >> \o Zeros(32)),
           BigV(FALSE, TwoTo255), BigV(FALSE, << 127 >> \o [i \in 1..31 |-> 255]),
           BigV(TRUE, TwoTo255), BigV(TRUE, << 128 >> \o Zeros(30) \o << 1 >>) }
    \cup { BoolV(TRUE), BoolV(FALSE) }
    \cup { HexV(Foo32), HexV(Address20), HexV(<< 171 >>), HexV(Zeros(33)) }
\* The alternatives a caller lists for one parameter.
EncAlternatives == { IntV(2), IntV(-2), IntV(3), HexV(Foo32), BoolV(TRUE) }
EncArrays ==
    { ArrV(<< >>) }
    \cup { ArrV(<< a >>) : a \in EncAlternatives }
    \cup { ArrV(<< a, b >>) : a, b \in EncAlternatives }
    \cup { ArrV(<< Null >>), ArrV(<< IntV(2), Null >>), ArrV(<< Null, IntV(2) >>),
           ArrV(<< ArrV(<< IntV(2) >>) >>), ArrV(<< IntV(2), ArrV(<< IntV(3) >>) >>) }
EncValues == { Undefined, Null } \cup EncScalars \cup EncArrays

EncInit ==
    /\ abi = << SampleEvent, MixedEvent >>
    /\ calls = 0
    /\ prev = NoCall
    /\ last = NoCall
    /\ queries = << >>
    /\ listeners = << >>
    /\ returned = << >>
    /\ encType \in EncTypes
    /\ encValue \in EncValues
    /\ encResult = NotEncoded
    /\ NotWatching
    /\ NoChain

\* encodeIndexedValue(hre, type, value) as encodeTopics calls it.
Encode ==
    /\ encResult = NotEncoded
    /\ encResult' = encodeIndexedValue(HRE, encType, encValue, Undefined)
    /\ UNCHANGED << engineVars, encType, encValue, watchVars, chainVars >>

EncNext == Encode

EncSpec == EncInit /\ [][EncNext]_vars

(***************************************************************************)
(* Properties of the topic encoder (checked under EncSpec).                *)
(***************************************************************************)
Encoded == encResult # NotEncoded
IsWord(x) == x.k = "hex" /\ Len(x.v) = 32
IsScalar(x) == x.k \in {"int", "big", "bool", "hex"}
IsInteger(x) == x.k \in {"int", "big"}
IsSizedType(t, bases) == t.k = "type" /\ Len(t.v) = 2 /\ t.v[1] \in bases
IsUintN(t) == IsSizedType(t, {"uint"}) /\ t.v[2] \in 8..256 /\ t.v[2] % 8 = 0
IsIntN(t) == IsSizedType(t, {"int"}) /\ t.v[2] \in 8..256 /\ t.v[2] % 8 = 0
IsBytesN(t) == IsSizedType(t, {"bytes"}) /\ t.v[2] \in 1..32
SupportedType(t) ==
    t.k = "type" /\ (t.v \in { << "address" >>, << "bool" >> } \/ IsUintN(t) \/ IsIntN(t) \/ IsBytesN(t))
\* 0 <= x < 2^256 and -2^255 <= x < 2^255 for an integer value x.
InUint256(x) == IF x.k = "int" THEN x.v >= 0 ELSE ~x.v.neg /\ Len(x.v.mag) <= 32
InInt256(x) ==
    IF x.k = "int" THEN TRUE
    ELSE \/ Len(x.v.mag) < 32
         \/ Len(x.v.mag) = 32 /\ x.v.mag[1] < 128
         \/ x.v.neg /\ x.v.mag = TwoTo255
IsNegative(x) == IF x.k = "int" THEN x.v < 0 ELSE x.v.neg
\* The 32 bytes of |x|, most significant first.
AbsWord(x) ==
    IF x.k = "int"
    THEN LET a == IF x.v < 0 THEN 0 - x.v ELSE x.v
         IN Zeros(28) \o << a \div 16777216, (a \div 65536) % 256, (a \div 256) % 256, a % 256 >>
    ELSE Zeros(32 - Len(x.v.mag)) \o x.v.mag
\* a + b modulo 2^(8 * Len(a)) on big-endian byte strings of one length.
RECURSIVE CarryInto(_, _, _)
CarryInto(a, b, i) ==
    IF i = Len(a) THEN 0 ELSE (a[i + 1] + b[i + 1] + CarryInto(a, b, i + 1)) \div 256
AddBytes(a, b) == [i \in 1..Len(a) |-> (a[i] + b[i] + CarryInto(a, b, i)) % 256]
\* The value is well-typed for the supported type.
WellTyped(t, x) ==
    \/ t.v = << "address" >> /\ x.k = "hex" /\ Len(x.v) = 20
    \/ t.v = << "bool" >> /\ x.k = "bool"
    \/ IsUintN(t) /\ IsInteger(x) /\ InUint256(x)
    \/ IsIntN(t) /\ IsInteger(x) /\ InInt256(x)
    \/ IsBytesN(t) /\ x.k = "hex" /\ Len(x.v) = t.v[2]

\* C2: an array of well-typed scalar alternatives encodes to the list, of the
\* same length, of the encodings its elements get on their own.
C2_AlternativesEncoded ==
    ( /\ Encoded /\ IsArray(encValue) /\ SupportedType(encType)
      /\ \A i \in 1..Len(encValue.v) :
            IsScalar(encValue.v[i]) /\ WellTyped(encType, encValue.v[i]) )
    => /\ IsArray(encResult)
       /\ Len(encResult.v) = Len(encValue.v)
       /\ \A i \in 1..Len(encValue.v) :
            /\ IsWord(encResult.v[i])
            /\ encResult.v[i] = encodeIndexedValue(HRE, encType, encValue.v[i], Undefined)

\* C3: an array of alternatives that holds a null or a nested array is
\* rejected with the error "null cannot be an individual topic in an array".
C3_NullAlternativeRejected ==
    ( /\ Encoded /\ IsArray(encValue) /\ SupportedType(encType)
      /\ \E i \in 1..Len(encValue.v) : encValue.v[i] = Null \/ IsArray(encValue.v[i]) )
    => ErrName(encResult) = "NullTopicInArray"

\* C4: for uintN (N = 8, 16, ..., 256) and 0 <= v < 2^256 the topic is the
\* 32-byte big-endian form of v, zero-padded on the left; uint256 2 is 31
\* zero bytes and 0x02.
C4_UintEncoding ==
    /\ (Encoded /\ IsUintN(encType) /\ IsInteger(encValue) /\ InUint256(encValue))
         => IsWord(encResult) /\ encResult.v = AbsWord(encValue)
    /\ (Encoded /\ encType = TypeT(<< "uint", 256 >>) /\ encValue = IntV(2))
         => encResult = HexV(Zeros(31) \o << 2 >>)
C4_Witness ==
    /\ encType = TypeT(<< "uint", 256 >>) /\ encValue = IntV(2)
    /\ encResult = HexV(Zeros(31) \o << 2 >>)

\* C5: for intN (N = 8, 16, ..., 256) and -2^255 <= v < 2^255 the topic is
\* the 32 bytes of v mod 2^256 whatever N is: non-negative values as for
\* unsigned types, a negative value as the word that added to |v| gives 0;
\* int256 -2 is 31 bytes 0xff and 0xfe.
C5_IntEncoding ==
    /\ (Encoded /\ IsIntN(encType) /\ IsInteger(encValue) /\ InInt256(encValue))
         => /\ IsWord(encResult)
            /\ ~IsNegative(encValue) => encResult.v = AbsWord(encValue)
            /\ IsNegative(encValue) =>
                  AddBytes(encResult.v, AbsWord(encValue)) = Zeros(32)
    /\ (Encoded /\ encValue = IntV(-2) /\ IsIntN(encType))
         => encResult = HexV([i \in 1..31 |-> 255] \o << 254 >>)
C5_Witness ==
    /\ encType = TypeT(<< "int", 8 >>) /\ encValue = IntV(-2)
    /\ encResult = HexV([i \in 1..31 |-> 255] \o << 254 >>)

\* C6: a scalar of a supported type (address, bool, uintN and intN in 8-bit
\* steps to 256, bytes1..bytes32) encodes to a 32-byte word; with any other
\* type the encoder fails with the unsupported-type error naming the type.
C6_SupportedTypes ==
    (Encoded /\ IsScalar(encValue)) =>
        /\ (SupportedType(encType) /\ WellTyped(encType, encValue)) => IsWord(encResult)
        /\ ~SupportedType(encType) => encResult = Err("UnsupportedIndexedType", encType)
C6_Witness ==
    /\ encType = TypeT(<< "uint", 264 >>) /\ encValue = IntV(2)
    /\ encResult = Err("UnsupportedIndexedType", TypeT(<< "uint", 264 >>))

(***************************************************************************)
(* Properties of fetchLogs and watchLogs (checked under Spec).             *)
(***************************************************************************)
HasCalled == last.n > 0
Accepted(call) == ~IsError(call.outcome)
\* The indexed filter a call hands to its backend: the ethers variant's
\* topics, the viem variant's args.
TopicFilter(call) ==
    IF call.variant = "ethers" THEN call.outcome.topics ELSE call.outcome.args
\* The events of the interface that carry the identifier's name.
Named(eventName) == SelectSeq(abi, LAMBDA item : item.name = eventName.name)
\* The indexed arguments a call was given (none when the callback took
\* their place).
GivenArgs(call) ==
    IF call.indexedArgs.k \in {"arr", "obj"} THEN call.indexedArgs ELSE ArrV(<< >>)
\* The value a call gives for the i-th indexed parameter, whose name is key.
GivenValue(call, i, key) ==
    IF IsArray(GivenArgs(call)) THEN GetIndex(GivenArgs(call), i - 1)
    ELSE GetProp(GivenArgs(call), key)
\* The slots of the indexed filter, one per name.
Slots(call, names) ==
    IF call.variant = "ethers" THEN Tail(call.outcome.topics.v)
    ELSE [i \in 1..Len(names) |-> GetProp(call.outcome.args, names[i])]
\* The call failed to resolve its event identifier.
Unresolved(call) == ErrName(call.outcome) \in {"EventNotFound", "AmbiguousEvent"}
\* Nothing was handed to the backend for the call.
NothingIssued(call) ==
    /\ \A i \in 1..Len(queries) : queries[i].call # call.n
    /\ \A i \in 1..Len(listeners) : listeners[i].call # call.n

\* C1: a call with positional indexed arguments and the same call with the
\* equivalent name-keyed mapping hand the same indexed filter to the backend.
C1_SameFilterBothForms ==
    (calls >= 2 /\ IsArray(prev.indexedArgs) /\ Accepted(prev))
        => Accepted(last) /\ TopicFilter(last) = TopicFilter(prev)

\* C7: an accepted call's filter has one slot per indexed parameter of its
\* event, in declaration order, and a slot is a wildcard exactly when the
\* value given for its parameter is missing, undefined or null.
C7_OneSlotPerIndexedParameter ==
    (HasCalled /\ Accepted(last)) =>
        LET names == IndexedNames(last.outcome.event)
            slots == Slots(last, names)
        IN /\ Len(slots) = Len(names)
           /\ \A i \in 1..Len(names) :
                Nullish(slots[i]) <=> Nullish(GivenValue(last, i, names[i]))

\* C8: a positional sequence longer than the event's indexed parameters
\* fails with the too-many-arguments error and nothing reaches the backend.
C8_TooManyArgumentsRejected ==
    ( /\ HasCalled /\ IsArray(last.indexedArgs) /\ ~includesParen(last.eventName)
      /\ Len(Named(last.eventName)) = 1
      /\ Len(last.indexedArgs.v) > Len(IndexedNames(Named(last.eventName)[1])) )
    => ErrName(last.outcome) = "TooManyArguments" /\ NothingIssued(last)

\* C9: a bare name that one or several events of the interface carry
\* resolves, without error, to the first of them in declaration order.
C9_BareNameFirstMatch ==
    (HasCalled /\ ~includesParen(last.eventName) /\ Len(Named(last.eventName)) >= 1)
    => /\ ~Unresolved(last)
       /\ Accepted(last) => last.outcome.event = Named(last.eventName)[1]

\* An event of the interface has the identifier's name, its parameter types
\* in order and, where the identifier writes them, its indexed flags.
StructuralMatch(eventName) ==
    \E e \in 1..Len(abi) :
        /\ abi[e].name = eventName.name
        /\ Len(abi[e].inputs) = Len(eventName.params)
        /\ \A i \in 1..Len(eventName.params) :
             /\ abi[e].inputs[i].type = eventName.params[i].type
             /\ eventName.form = "annotated" =>
                  abi[e].inputs[i].indexed = eventName.params[i].indexed

\* C10: in getEventAbi an identifier with a parenthesis, annotated or
\* type-only, resolves exactly when the interface declares an event with the
\* same name, the same ordered parameter types and the same indexed flags,
\* whatever the parameter names.
C10_SignatureStructuralMatch ==
    (HasCalled /\ last.variant = "viem" /\ includesParen(last.eventName))
    => (~Unresolved(last) <=> StructuralMatch(last.eventName))

\* The identifier names an event of the interface: by its name when bare, by
\* its name and ordered parameter types when it is a signature.
NamesAnEvent(eventName) ==
    IF ~includesParen(eventName) THEN Len(Named(eventName)) >= 1
    ELSE \E e \in 1..Len(abi) :
            format(abi[e]) = Sighash(eventName.name, eventName.params)
\* The call's identifier names no event, the call failed with the not-found
\* error and handed nothing to the backend.
RejectedAsUnknown(call) ==
    (call.n > 0 /\ ~NamesAnEvent(call.eventName))
        => ErrName(call.outcome) = "EventNotFound" /\ NothingIssued(call)

\* C11: fetchLogs and watchLogs with an identifier, bare or signature, that
\* names no event of the interface fail with the not-found error; no range
\* query is issued and no listener registered for the call, then or later.
C11_UnknownEventRejected == RejectedAsUnknown(prev) /\ RejectedAsUnknown(last)
C11_Witness ==
    /\ HasCalled /\ last.op = "watchLogs" /\ includesParen(last.eventName)
    /\ ~NamesAnEvent(last.eventName)
    /\ ErrName(last.outcome) = "EventNotFound"
    /\ listeners = << >>

\* A call of the README's block-range examples: a bare name that one event
\* carries, no indexed arguments.
PlainFetch(call) ==
    /\ call.n > 0 /\ call.op = "fetchLogs"
    /\ ~includesParen(call.eventName) /\ Len(Named(call.eventName)) = 1
    /\ call.indexedArgs = Undefined
\* Block number n as the variant hands it to its backend.
BlockOf(call, n) == IF call.variant = "ethers" THEN IntV(n) ELSE BigIntV(n)

\* C12: fetchLogs with fromBlock absent, null or 0 and toBlock absent, null
\* or "latest" never fails and always asks for blocks 0 to "latest"; an
\* explicit block number is handed to the backend as that number.
C12_DefaultBlockRange ==
    PlainFetch(last) =>
        /\ (last.fromBlock \in DefaultFrom /\ last.toBlock \in DefaultTo)
             => /\ Accepted(last)
                /\ last.outcome.fromBlock = BlockOf(last, 0)
                /\ last.outcome.toBlock = StrV("latest")
        /\ (last.fromBlock.k = "int" /\ last.toBlock.k # "str")
             => Accepted(last) /\ last.outcome.fromBlock = BlockOf(last, last.fromBlock.v)
        /\ last.toBlock.k = "int"
             => Accepted(last) /\ last.outcome.toBlock = BlockOf(last, last.toBlock.v)

\* The range queries and the results of a call.
QueriesOf(call) == { q \in 1..Len(queries) : queries[q].call = call.n }
ResultsOf(call) == { r \in 1..Len(returned) : returned[r].call = call.n }
\* An accepted fetchLogs call has handed the backend one range query, for the
\* contract's address and the call's topic filter, and has returned at most
\* once.
OneRangeQuery(call) ==
    (call.n > 0 /\ call.op = "fetchLogs" /\ Accepted(call)) =>
        /\ Cardinality(QueriesOf(call)) = 1
        /\ Cardinality(ResultsOf(call)) <= 1
        /\ \A q \in QueriesOf(call) :
             /\ queries[q].filter.address = ContractAddress
             /\ queries[q].filter = call.outcome
             /\ call.variant = "ethers" =>
                   /\ queries[q].filter.topics.v[1] = id(format(call.outcome.event))
                   /\ Len(queries[q].filter.topics.v)
                        = 1 + Len(IndexedNames(call.outcome.event))

\* C13: an accepted fetchLogs call issues exactly one range query, for the
\* contract's address and the encoded topic filter, and returns one
\* normalised log per raw entry of the backend's answer, in the same order.
C13_OneQueryOrderedResult ==
    /\ OneRangeQuery(prev) /\ OneRangeQuery(last)
    /\ \A r \in 1..Len(returned) :
         /\ Len(returned[r].logs) = Len(returned[r].raw)
         /\ \A j \in 1..Len(returned[r].raw) :
              /\ returned[r].logs[j] # Null
              /\ returned[r].logs[j].native = returned[r].raw[j]
C13_Witness ==
    /\ HasCalled /\ last.op = "fetchLogs" /\ Accepted(last)
    /\ LET names == IndexedNames(last.outcome.event)
       IN \E i \in 1..Len(names) : ~Nullish(Slots(last, names)[i])
    /\ \E r \in ResultsOf(last) : Len(returned[r].logs) = MaxLogs

\* The query a result answers, its variant and its event.
QueryOf(r) == queries[CHOOSE q \in 1..Len(queries) : queries[q].call = returned[r].call]
\* The value the backend decoded for the i-th parameter of a raw entry.
RawValue(variant, ev, raw, i) ==
    IF variant = "ethers" THEN raw.decoded[i] ELSE GetProp(raw.args, ev.inputs[i].name)
PositionalKeys == { IndexKey(i) : i \in 0..7 }
\* args holds every parameter of the event under its position and under its
\* name, both with the decoded value, and no other positional key.
ArgsByIndexAndName(variant, ev, raw, log) ==
    /\ \A i \in 1..Len(ev.inputs) :
         /\ IndexKey(i - 1) \in DOMAIN log.args.v
         /\ ev.inputs[i].name \in DOMAIN log.args.v
         /\ log.args.v[IndexKey(i - 1)] = log.args.v[ev.inputs[i].name]
         /\ log.args.v[IndexKey(i - 1)] = RawValue(variant, ev, raw, i)
    /\ DOMAIN log.args.v \cap PositionalKeys
         = { IndexKey(i - 1) : i \in 1..Len(ev.inputs) }

\* C14: in every normalised log, args maps the position i and the name of
\* every parameter, indexed or not, to the same decoded value, and has no
\* positional key beyond the parameters.
C14_ArgsByIndexAndName ==
    \A r \in 1..Len(returned) : \A j \in 1..Len(returned[r].logs) :
        ArgsByIndexAndName(QueryOf(r).variant, QueryOf(r).filter.event,
                           returned[r].raw[j], returned[r].logs[j])
C14_Witness ==
    \E r \in 1..Len(returned) :
        /\ QueryOf(r).variant = "ethers" /\ QueryOf(r).filter.event = MixedEvent
        /\ Len(returned[r].logs) = MaxLogs
        /\ returned[r].logs[1].args.v["0"] = returned[r].logs[1].args.v["count"]
        /\ returned[r].logs[1].args.v["3"] = returned[r].logs[1].args.v["amount"]

\* The index of a raw entry within its block, as its backend names it.
RawLogIndex(variant, raw) == IF variant = "ethers" THEN raw.index ELSE raw.logIndex
\* C15: a normalised log carries the block number, block hash, transaction
\* index, transaction hash and log index of its raw entry unchanged, and the
\* raw entry itself as native.
C15_MetadataVerbatim ==
    \A r \in 1..Len(returned) : \A j \in 1..Len(returned[r].logs) :
        LET raw == returned[r].raw[j]
            log == returned[r].logs[j]
        IN /\ log.blockNumber = raw.blockNumber
           /\ log.blockHash = raw.blockHash
           /\ log.transactionIndex = raw.transactionIndex
           /\ log.transactionHash = raw.transactionHash
           /\ log.logIndex = RawLogIndex(QueryOf(r).variant, raw)
           /\ log.native = raw
C15_Witness ==
    \E r \in 1..Len(returned) :
        /\ QueryOf(r).variant = "viem" /\ Len(returned[r].logs) = MaxLogs
        /\ returned[r].logs[MaxLogs].blockNumber = BigIntV(20 + MaxLogs)
        /\ returned[r].logs[MaxLogs].logIndex = IntV(MaxLogs - 1)

\* The listeners registered for a call.
ListenersOf(call) == { l \in 1..Len(listeners) : listeners[l].call = call.n }
\* What watchLogs does with explicit empty indexed arguments and the callback.
WatchWithEmptyArgs(call) ==
    IF call.variant = "ethers"
    THEN ethersWatchFilter(abi, call.eventName, ArrV(<< >>), Callback)
    ELSE viemWatchFilter(abi, call.eventName, ArrV(<< >>), Callback)
\* Every slot of the call's indexed filter is a wildcard.
AllWildcards(call) ==
    IF call.variant = "ethers"
    THEN \A i \in 2..Len(call.outcome.topics.v) : call.outcome.topics.v[i] = Null
    ELSE call.outcome.args = EmptyObj

\* C17: watchLogs(contract, eventName, callback) uses the function given as
\* third argument as the callback and registers an all-wildcard filter, as
\* watchLogs(contract, eventName, [], callback) does.
C17_CallbackAsThirdArgument ==
    (HasCalled /\ last.op = "watchLogs" /\ last.indexedArgs.k = "fn"
       /\ last.callback = Undefined)
    => /\ last.outcome = WatchWithEmptyArgs(last)
       /\ NamesAnEvent(last.eventName) /\ ~Unresolved(last)
            => /\ Accepted(last)
               /\ last.outcome.callback = last.indexedArgs
               /\ AllWildcards(last)
               /\ Cardinality(ListenersOf(last)) = 1
C17_Witness ==
    /\ HasCalled /\ last.op = "watchLogs" /\ last.variant = "viem"
    /\ last.indexedArgs = Callback /\ last.callback = Undefined
    /\ Accepted(last) /\ last.outcome.callback = Callback
    /\ last.outcome.args = EmptyObj
    /\ Cardinality(ListenersOf(last)) = 1

(***************************************************************************)
(* Properties of subscriptions (checked under WatchSpec).                  *)
(***************************************************************************)
\* A normalised log with its name, args, block and transaction data and
\* native entry.
IsNormalizedLog(x) ==
    /\ x # Null
    /\ x.k = "normalized"
    /\ { "name", "args", "blockNumber", "blockHash", "transactionIndex",
         "transactionHash", "logIndex", "native" } \subseteq DOMAIN x
    /\ x.name \in { abi[e].name : e \in 1..Len(abi) }
    /\ x.args.k = "obj"
    /\ \A field \in { x.blockNumber, x.blockHash, x.transactionIndex,
                       x.transactionHash, x.logIndex } : ~Nullish(field)
    /\ x.native.blockHash = x.blockHash

\* C16: every element fetchLogs returns and every value a watchLogs callback
\* is given is a normalised log, never null, with name, args, the block and
\* transaction data and native.
C16_NeverNull ==
    /\ \A r \in 1..Len(returned) : \A j \in 1..Len(returned[r].logs) :
          IsNormalizedLog(returned[r].logs[j])
    /\ \A d \in 1..Len(delivered) : IsNormalizedLog(delivered[d].value)
C16_Witness ==
    /\ HasCalled /\ last.variant = "ethers" /\ last.op = "watchLogs"
    /\ Len(delivered) = MaxLogs
    /\ \A d \in 1..Len(delivered) :
         delivered[d].value # Null /\ delivered[d].value.name = last.outcome.event.name

\* The callback was invoked for log pos of a batch of a call.
Invoked(call, batch, pos) ==
    \E d \in 1..Len(delivered) :
        delivered[d].call = call /\ delivered[d].batch = batch /\ delivered[d].pos = pos
\* The log is queued under the tag of the listener of the call.
Queued(call, batch, pos) ==
    \E e \in 1..Len(emitQueue), l \in 1..Len(listeners) :
        /\ listeners[l].call = call
        /\ emitQueue[e].tag = Tag(l)
        /\ emitQueue[e].batch = batch /\ emitQueue[e].pos = pos

\* C18: when the callback throws on log k of a batch of n logs, it is still
\* invoked for the logs k+1..n of the batch (at once in the viem variant; in
\* the ethers variant each is invoked or queued for the listener until the
\* caller unsubscribes), and the listener is removed by its handle only, so
\* that later batches are delivered too.
C18_DeliveryGoesOn ==
    /\ \A d \in 1..Len(delivered) :
         delivered[d].threw =>
            \A p \in (delivered[d].pos + 1)..delivered[d].size :
                \/ Invoked(delivered[d].call, delivered[d].batch, p)
                \/ /\ last.variant = "ethers"
                   /\ Queued(delivered[d].call, delivered[d].batch, p)
                       \/ delivered[d].call \in removed
    /\ \A c \in removed : \E u \in 1..Len(unwatched) : unwatched[u] = c
C18_Witness ==
    /\ Len(delivered) >= 3
    /\ delivered[1].threw /\ delivered[1].batch = 1 /\ delivered[1].size = 2
    /\ Invoked(delivered[1].call, 1, 2)
    /\ Invoked(delivered[1].call, 2, 1)
    /\ last.variant = "viem"

\* The callbacks that threw.
Thrown == { d \in 1..Len(delivered) : delivered[d].threw }
\* C19: an exception of the user callback is caught and reported inside the
\* listener that watchLogs registered; it never reaches the backend's
\* emitter, and the listener stays registered.
C19_CallbackErrorsCaught ==
    /\ escaped = 0
    /\ reported = Cardinality(Thrown)
    /\ \A c \in removed : \E u \in 1..Len(unwatched) : unwatched[u] = c

\* The handle of a call has completed.
Unwatched(call) == \E u \in 1..Len(unwatched) : unwatched[u] = call
\* C20: once the unsubscribe handle of a subscription has completed, the
\* callback of the subscription is not invoked again, whatever the backend
\* emits or has queued.
C20_NoCallbackAfterUnwatch ==
    [][ \A d \in (Len(delivered) + 1)..Len(delivered') :
            ~Unwatched(delivered'[d].call) ]_vars
C20_Witness ==
    /\ Len(unwatched) = 2
    /\ last.variant = "ethers"
    /\ delivered # << >>
    /\ emitQueue # << >> /\ Targets("ethers", emitQueue[1].tag) = << >>


\* The call an invocation of an unsubscribe handle belongs to, when the step
\* is one.
HandleStep == Len(unwatched') = Len(unwatched) + 1
HandleCall == unwatched'[Len(unwatched')]

\* C21: invoking the unsubscribe handle of a subscription again, after it
\* has completed once, completes too and leaves the set of listeners the
\* backend holds as the first invocation left it.
C21_UnwatchIdempotent ==
    [][ (HandleStep /\ Unwatched(HandleCall)) =>
            /\ removed' = removed
            /\ HandleCall \in removed
            /\ UNCHANGED << listeners, emitQueue, delivered, reported, escaped >> ]_vars
C21_Witness ==
    /\ Len(unwatched) = 2
    /\ unwatched[1] = unwatched[2]
    /\ removed = { unwatched[1] }
    /\ last.variant = "viem"
    /\ delivered # << >>


\* The invocations of the callback of a call, oldest first.
DeliveriesOf(call) == SelectSeq(delivered, LAMBDA d : d.call = call)
\* The raw log the backend delivered as log pos of a batch to a listener,
\* and its normalised record.
RawLog(l, batch, pos) ==
    IF listeners[l].variant = "ethers"
    THEN EthersEntry(listeners[l].filter.event, (batch - 1) * MaxLogs + pos)
    ELSE ViemEntry(listeners[l].filter.event, (batch - 1) * MaxLogs + pos)
RecordOf(l, batch, pos) ==
    IF listeners[l].variant = "ethers"
    THEN ethersNormalizeLog(abi, RawLog(l, batch, pos))
    ELSE viemNormalizeLog(listeners[l].filter.event, RawLog(l, batch, pos))

\* C22: within one subscription the callback is invoked once per raw log,
\* with the normalised record of that log, in the order the backend
\* delivered the logs: the invocations of a batch follow each other from its
\* first log without a gap or a repetition, one invocation being over when
\* the next starts, and a later batch starts only when the one before is
\* through.
C22_OncePerLogInOrder ==
    \A l \in 1..Len(listeners) :
        LET ds == DeliveriesOf(listeners[l].call)
        IN /\ ds # << >> => ds[1].batch = 1 /\ ds[1].pos = 1
           /\ \A i \in 1..Len(ds) :
                /\ ds[i].value = RecordOf(l, ds[i].batch, ds[i].pos)
                /\ ds[i].value.native = RawLog(l, ds[i].batch, ds[i].pos)
                /\ i < Len(ds) =>
                     IF ds[i].pos < ds[i].size
                     THEN ds[i + 1].batch = ds[i].batch /\ ds[i + 1].pos = ds[i].pos + 1
                     ELSE ds[i + 1].batch = ds[i].batch + 1 /\ ds[i + 1].pos = 1
                /\ i = Len(ds) /\ ds[i].pos < ds[i].size =>
                     \/ Queued(listeners[l].call, ds[i].batch, ds[i].pos + 1)
                     \/ listeners[l].call \in removed
C22_Witness ==
    /\ Len(delivered) = 3
    /\ last.variant = "ethers"
    /\ delivered[1].batch = 1 /\ delivered[1].size = 2 /\ delivered[1].threw
    /\ delivered[2].batch = 1 /\ delivered[2].pos = 2
    /\ delivered[3].batch = 2 /\ delivered[3].pos = 1
    /\ delivered[3].value = RecordOf(1, 2, 1)


\* The indexed parameters of an event, in declaration order.
IndexedParams(ev) == SelectSeq(ev.inputs, LAMBDA param : param.indexed)

\* C27: entry k (from 0) of a positional sequence is applied to the k-th
\* indexed parameter of the resolved event, whatever non-indexed parameters
\* are declared before or between: in the viem variant it is the value under
\* that parameter's name, in the ethers variant its encoding is topic k+1;
\* topic 0 of an ethers filter is always the hash of the event's canonical
\* signature, whatever the indexed arguments are.
C27_PositionalByIndexedOrder ==
    (HasCalled /\ Accepted(last)) =>
        LET ev == last.outcome.event
            params == IndexedParams(ev)
        IN /\ last.variant = "ethers" => last.outcome.topics.v[1] = id(format(ev))
           /\ IsArray(last.indexedArgs) =>
                \A k \in 0..(Len(params) - 1) :
                    LET value == GetIndex(last.indexedArgs, k)
                    IN IF last.variant = "ethers"
                       THEN /\ Len(last.outcome.topics.v) = Len(params) + 1
                            /\ last.outcome.topics.v[k + 2] =
                                 IF value = Undefined THEN Null
                                 ELSE encodeIndexedValue(HRE, params[k + 1].type, value,
                                                         Undefined)
                       ELSE /\ GetProp(last.outcome.args, params[k + 1].name) = value
                            /\ \A j \in 1..Len(ev.inputs) :
                                 ~ev.inputs[j].indexed =>
                                    GetProp(last.outcome.args, ev.inputs[j].name) = Undefined
C27_Witness ==
    /\ HasCalled /\ Accepted(last)
    /\ last.variant = "ethers"
    /\ last.outcome.event = MixedEvent
    /\ IsArray(last.indexedArgs) /\ last.indexedArgs.v = << Null, IntV(-2) >>
    /\ last.outcome.topics.v[3] =
          encodeIndexedValue(HRE, IndexedParams(MixedEvent)[2].type, IntV(-2), Undefined)
    /\ last.outcome.topics.v[3] # Null


(***************************************************************************)
(* Properties of fetchTransactionLogs (checked under TxSpec).              *)
(***************************************************************************)
IsTxCall(call) == call.n > 0 /\ call.op = "fetchTransactionLogs"
\* The events of the interface.
Declared == { abi[e] : e \in 1..Len(abi) }
\* The places of the receipt whose entry was emitted as the event ev with
\* all its topics.
PlacesOf(ev) ==
    { i \in 1..Len(receipt.logs) : receipt.logs[i].ev = ev /\ ~receipt.logs[i].short }
\* The raw entries the records of a result were made from.
NativesOf(result) == [j \in 1..Len(result.v) |-> result.v[j].native]
\* The raw receipt entries of a variant at a set of places, in receipt order.
EntriesAt(variant, places) ==
    LET logs == ReceiptLogs(variant)
        at == SelectSeq([i \in 1..Len(logs) |-> i], LAMBDA i : i \in places)
    IN [j \in 1..Len(at) |-> logs[at[j]]]
\* The raw part of the native of a record (the viem variant adds the decoded
\* event to it).
RawTopics(natives) == [j \in 1..Len(natives) |-> natives[j].topics]

\* C23: when a call with a bare name returned a non-empty sequence of logs
\* of one event, the call with that event's canonical signature (with or
\* without names and indexed flags) on the same receipt returns the same
\* sequence.
C23_SignatureSameAsBareName ==
    ( /\ calls = 2 /\ IsTxCall(prev) /\ IsTxCall(last)
      /\ ~includesParen(prev.eventName) /\ includesParen(last.eventName)
      /\ IsArray(prev.outcome) /\ prev.outcome.v # << >>
      /\ \E ev \in Declared :
            /\ last.eventName \in { TypesId(ev), AnnotatedId(ev) }
            /\ \A j \in 1..Len(prev.outcome.v) :
                  prev.outcome.v[j].native.topics[1] = id(format(ev)) )
    => /\ IsArray(last.outcome)
       /\ last.outcome = prev.outcome

\* C24: an entry of the receipt that the interface cannot decode never makes
\* fetchTransactionLogs fail: the call fails only when its identifier is not
\* resolved, and otherwise returns normalised records, none of them null,
\* made from entries of the receipt in receipt order.
C24_UndecodableEntriesDropped ==
    IsTxCall(last) =>
        IF IsError(last.outcome)
        THEN ErrName(last.outcome) \in {"EventNotFound", "AmbiguousEvent"}
        ELSE /\ IsArray(last.outcome)
             /\ \A j \in 1..Len(last.outcome.v) : last.outcome.v[j] # Null
             /\ \E places \in SUBSET (1..Len(receipt.logs)) :
                   RawTopics(NativesOf(last.outcome)) =
                       RawTopics(EntriesAt(last.variant, places))


\* C28: fetchTransactionLogs with an identifier that names no event of the
\* interface fails with the not-found error instead of returning a
\* sequence.
C28_UnknownEventInTransaction ==
    (IsTxCall(last) /\ ~NamesAnEvent(last.eventName))
        => ErrName(last.outcome) = "EventNotFound"

\* The places of the receipt whose entry the interface decodes as an event
\* of a name, whatever address emitted it.
PlacesNamed(name) ==
    { i \in 1..Len(receipt.logs) :
        /\ receipt.logs[i].ev \in Declared
        /\ receipt.logs[i].ev.name = name
        /\ ~receipt.logs[i].short }
\* C29: a sequence the ethers fetchTransactionLogs returns for a bare name
\* holds records of that name only, and holds one for every entry of the
\* receipt that the interface decodes as an event of that name, the entries
\* emitted by other addresses than the contract's included.
C29_EthersTransactionLogsAnyAddress ==
    (IsTxCall(last) /\ last.variant = "ethers" /\ ~includesParen(last.eventName)
     /\ IsArray(last.outcome))
    => /\ \A j \in 1..Len(last.outcome.v) :
            last.outcome.v[j].name = last.eventName.name
       /\ NativesOf(last.outcome) = EntriesAt("ethers", PlacesNamed(last.eventName.name))
C29_Witness ==
    /\ IsTxCall(last) /\ last.variant = "ethers" /\ ~includesParen(last.eventName)
    /\ IsArray(last.outcome) /\ Len(last.outcome.v) = 2
    /\ last.outcome.v[1].native.address = OtherAddress
    /\ last.outcome.v[2].native.address = ContractAddress
    /\ last.outcome.v[1].name = "SampleEvent"


(***************************************************************************)
(* Two subscriptions (checked under PairSpec).                             *)
(***************************************************************************)
\* The registration of a call.
ListenerOf(call) == CHOOSE l \in 1..Len(listeners) : listeners[l].call = call
\* The invocations of callbacks a step adds.
NewDeliveries == (Len(delivered) + 1)..Len(delivered')

\* C25: two subscriptions, on the same filter or not, are independent: a
\* step that invokes the unsubscribe handle of one removes no listener but
\* its own, and a step that invokes a callback for a log invokes, for that
\* log, the callback of every subscription that the backend holds under the
\* same filter and that has not been unsubscribed, whatever was subscribed,
\* delivered or unsubscribed before.
C25_IndependentSubscriptions ==
    [][ /\ HandleStep => removed' \subseteq removed \cup { HandleCall }
        /\ \A d \in NewDeliveries :
             \A l \in 1..Len(listeners) :
                 ( /\ Live(l)
                   /\ listeners[l].variant = last.variant
                   /\ Tag(l) = Tag(ListenerOf(delivered'[d].call)) )
                 => \E d2 \in NewDeliveries :
                       /\ delivered'[d2].call = listeners[l].call
                       /\ delivered'[d2].batch = delivered'[d].batch
                       /\ delivered'[d2].pos = delivered'[d].pos ]_vars
C25_Witness ==
    /\ Len(listeners) = 2 /\ Tag(1) = Tag(2)
    /\ last.variant = "ethers"
    /\ removed = { listeners[1].call }
    /\ Invoked(listeners[1].call, 1, 1) /\ Invoked(listeners[2].call, 1, 1)
    /\ Invoked(listeners[2].call, 2, 1) /\ ~Invoked(listeners[1].call, 2, 1)


(***************************************************************************)
(* Properties of transfer and send (checked under MoneySpec).              *)
(***************************************************************************)
IsTransfer(call) == call.n > 0 /\ call.op = "transfer"
\* The call handed a transaction to a signer.
Sent(call) == ~IsError(call.outcome)
\* The integer an amount writes: a number without fraction, a bigint, or a
\* text of one or more decimal digits.
IsAmount(x) ==
    \/ x.k \in {"int", "bigint"}
    \/ x.k = "text" /\ x.v # << >> /\ \A i \in 1..Len(x.v) : IsDigit(x.v[i])
IntegerOf(x) == IF x.k = "text" THEN DigitsValue(x.v) ELSE x.v
\* The value is missing or writes no integer.
NoInteger(x) ==
    \/ Nullish(x)
    \/ x.k = "frac"
    \/ x.k = "text" /\ \E i \in 1..Len(x.v) : ~IsDigit(x.v[i])
\* The number of transactions sent by the calls before the last one.
SentBefore == IF prev.n > 0 /\ Sent(prev) THEN 1 ELSE 0

AccountOf(call) == IF Truthy(call.txOpts) THEN GetProp(call.txOpts, "account") ELSE Undefined
\* C30: with an account index, number or bigint, send and transfer act
\* through the signer at that index of getSigners(); without the option
\* transfer acts through signer 0; any other account is used as the signer
\* as it is.
C30_AccountOption ==
    (HasCalled /\ last.op \in {"transfer", "send"}
     /\ (last.op = "transfer" => ~NoInteger(GetProp(last.txOpts, "value")))
     /\ (last.op = "transfer" => last.txOpts.k = "obj"))
    => LET account == AccountOf(last)
       IN /\ account.k \in {"int", "bigint"}
               => Sent(last) /\ last.outcome.by = Signers[account.v + 1]
          /\ (account = Undefined /\ last.op = "transfer")
               => Sent(last) /\ last.outcome.by = Signers[1]
          /\ account.k = "signer" => Sent(last) /\ last.outcome.by = account

====
